---- MODULE Spec2Model ----
(***************************************************************************)
(* Agent Prompt Processor (src/app.py): the rule-based service detection   *)
(* engine (EnhancedPatternLibrary, EnhancedServiceDetector), the template  *)
(* variable engine (VariableManager) and the session of the application    *)
(* (EnhancedAgentPromptProcessor).                                         *)
(*                                                                         *)
(* A text is a sequence of lexemes: maximal letter runs, maximal digit     *)
(* runs, single punctuation marks and single white-space characters, so    *)
(* that the Python string is the concatenation of the lexemes.  A regular  *)
(* expression of the pattern library is an abstract syntax tree over       *)
(* lexemes and is run by a backtracking matcher with Python's match        *)
(* priorities (leftmost start, alternatives in order, greedy and lazy      *)
(* repetition).                                                            *)
(***************************************************************************)
EXTENDS Integers, Sequences, FiniteSets, TLC

(***************************************************************************)
(* Lexemes and strings                                                     *)
(***************************************************************************)

\* Digit runs of the model's texts (\d+ matches one of them).
Digits == {"00", "1", "2", "3", "4", "5", "6", "7", "8", "9", "10", "11", "12", "89", "150"}

\* White space (\s).
WS == {" ", "\n"}

\* Python str.lower() on one lexeme (the lexemes of the model's texts that
\* hold capital letters).
Lower(l) ==
  CASE l = "AM" -> "am"
    [] l = "PM" -> "pm"
    [] l = "Mon" -> "mon"
    [] l = "Fri" -> "fri"
    [] l = "This" -> "this"
    [] l = "Sarah" -> "sarah"
    [] l = "NEVER" -> "never"
    [] l = "HEART" -> "heart"
    [] l = "Member" -> "member"
    [] l = "Repair" -> "repair"
    [] l = "Phone" -> "phone"
    [] l = "Time" -> "time"
    [] l = "NOW" -> "now"
    [] OTHER -> l

\* Python str.upper() on one lexeme, for the lexemes whose upper case the
\* code looks for (AM, PM and the priority keywords).
Upper(l) ==
  CASE l \in {"am", "AM"} -> "AM"
    [] l \in {"pm", "PM"} -> "PM"
    [] l \in {"never", "NEVER"} -> "NEVER"
    [] l \in {"always", "ALWAYS"} -> "ALWAYS"
    [] l \in {"must", "MUST"} -> "MUST"
    [] l \in {"critical", "CRITICAL"} -> "CRITICAL"
    [] OTHER -> l

\* str.lower() of a text.
LowerText(t) == [i \in 1..Len(t) |-> Lower(t[i])]

\* The Python string of a lexeme sequence.
RECURSIVE Join(_)
Join(t) == IF t = <<>> THEN "" ELSE Head(t) \o Join(Tail(t))

\* needle in hay (both lexeme sequences).
Contains(hay, needle) ==
  \E i \in 1..(Len(hay) - Len(needle) + 1) :
     \A j \in 1..Len(needle) : hay[i + j - 1] = needle[j]

(***************************************************************************)
(* Regular expressions: syntax                                             *)
(***************************************************************************)

T(S) == [k |-> "tok", s |-> S]              \* one lexeme of S
W(w) == [k |-> "tok", s |-> {w}]            \* a literal lexeme
Lazy == [k |-> "lazy"]                      \* .*?
G(n, p) == [k |-> "grp", n |-> n, p |-> p]  \* ( p ), capture group n
Alt(ps) == [k |-> "alt", ps |-> ps]         \* (?: p1 | p2 | ... )
Opt(p) == [k |-> "opt", p |-> p]            \* (?: p )?
Star(p) == [k |-> "star", p |-> p]          \* (?: p )*
S0 == Star(<<T(WS)>>)                       \* \s*
D == T(Digits)                              \* \d+
Words(ws) == Alt([i \in 1..Len(ws) |-> <<W(ws[i])>>])

(***************************************************************************)
(* Regular expressions: the backtracking matcher                           *)
(***************************************************************************)

\* Whether position i of the text holds word characters (\w).
IsWordAt(text, i) ==
  i >= 1 /\ i <= Len(text)
    /\ text[i] \notin WS \cup {"$", ",", "-", "<endash>", ":", ".", "%", "+", "\"", "'", "&", "/", "{", "}"}

NoGroup == [set |-> FALSE, s |-> 0, e |-> 0]
NoCaps == <<NoGroup, NoGroup>>
NoMatch == [ok |-> FALSE, start |-> 0, end |-> 0, caps |-> NoCaps]

Min(S) == CHOOSE x \in S : \A y \in S : x <= y
Max(S) == CHOOSE x \in S : \A y \in S : x >= y

\* The end of the longest run of lexemes of a class that starts at pos.
RunEnd(text, class, pos) ==
  LET stops == {j \in pos..Len(text) : text[j] \notin class}
  IN IF stops = {} THEN Len(text) + 1 ELSE Min(stops)

\* The position of the first newline at or after pos (the end of the text
\* when there is none).
LineEnd(text, pos) ==
  LET stops == {j \in pos..Len(text) : text[j] = "\n"}
  IN IF stops = {} THEN Len(text) + 1 ELSE Min(stops)

\* The concatenation of a sequence of sequences.
Flatten(L) ==
  IF Len(L) = 0 THEN <<>>
  ELSE IF Len(L) = 1 THEN L[1]
  ELSE LET K == Max({Len(L[i]) : i \in 1..Len(L)})
           valid == SelectSeq([m \in 1..(Len(L) * K) |-> <<((m - 1) \div K) + 1, ((m - 1) % K) + 1>>],
                              LAMBDA pr : pr[2] <= Len(L[pr[1]]))
       IN [m \in 1..Len(valid) |-> L[valid[m][1]][valid[m][2]]]

\* The backtracking search of the regular expression engine, as the list of
\* the states it can reach in the order it tries them.  A state is the start
\* of the attempt, the position reached and the groups captured so far; the
\* first state of the list that reaches the end of the pattern is the match.
RECURSIVE MatchSeq(_, _, _)
RECURSIVE StarOutcomes(_, _, _)

\* The states after one element, from each state in turn.
Step(text, e, states) ==
  CASE e.k = "tok" ->
         LET hit == SelectSeq(states, LAMBDA st : st.pos <= Len(text) /\ text[st.pos] \in e.s)
         IN [i \in 1..Len(hit) |-> [hit[i] EXCEPT !.pos = @ + 1]]
    [] e.k = "lazy" ->
         \* .*? : the runs of characters other than newline, shortest first
         Flatten([i \in 1..Len(states) |->
                    [k \in 1..(LineEnd(text, states[i].pos) - states[i].pos + 1) |->
                       [states[i] EXCEPT !.pos = @ + k - 1]]])
    [] e.k = "alt" ->
         Flatten([i \in 1..Len(states) |->
                    Flatten([b \in 1..Len(e.ps) |-> MatchSeq(text, e.ps[b], <<states[i]>>)])])
    [] e.k = "opt" ->
         Flatten([i \in 1..Len(states) |->
                    MatchSeq(text, e.p, <<states[i]>>) \o <<states[i]>>])
    [] e.k = "star" ->
         IF Len(e.p) = 1 /\ e.p[1].k = "tok"
         THEN \* a starred character class: its runs, longest first
              Flatten([i \in 1..Len(states) |->
                         [k \in 1..(RunEnd(text, e.p[1].s, states[i].pos) - states[i].pos + 1) |->
                            [states[i] EXCEPT
                               !.pos = RunEnd(text, e.p[1].s, states[i].pos) - k + 1]]])
         ELSE Flatten([i \in 1..Len(states) |-> StarOutcomes(text, e.p, states[i])])
    [] e.k = "grp" ->
         MatchSeq(text, <<[k |-> "open", n |-> e.n]>> \o e.p \o <<[k |-> "close", n |-> e.n]>>,
                  states)
    [] e.k = "open" ->
         [i \in 1..Len(states) |->
            [states[i] EXCEPT !.caps[e.n] = [set |-> FALSE, s |-> states[i].pos,
                                             e |-> states[i].pos]]]
    [] e.k = "close" ->
         [i \in 1..Len(states) |->
            [states[i] EXCEPT !.caps[e.n] = [set |-> TRUE, s |-> @.s, e |-> states[i].pos]]]
    [] e.k = "eol" ->
         LET hit == SelectSeq(states, LAMBDA st : st.pos = Len(text) + 1
                                                    \/ (st.pos <= Len(text) /\ text[st.pos] = "\n"))
         IN [i \in 1..Len(hit) |->
               [hit[i] EXCEPT !.pos = IF @ <= Len(text) THEN @ + 1 ELSE @]]
    [] e.k = "wb" ->
         SelectSeq(states, LAMBDA st : IsWordAt(text, st.pos - 1) # IsWordAt(text, st.pos))

\* The states after the element list elems.
MatchSeq(text, elems, states) ==
  IF elems = <<>> \/ states = <<>> THEN states
  ELSE MatchSeq(text, Tail(elems), <<>> \o Step(text, Head(elems), states))

\* (?: p )* from one state: a further repetition is tried before stopping.
StarOutcomes(text, p, st) ==
  LET more == SelectSeq(MatchSeq(text, p, <<st>>), LAMBDA r : r.pos > st.pos)
  IN Flatten([j \in 1..Len(more) |-> StarOutcomes(text, p, more[j])]) \o <<st>>

\* re.search from position from: the leftmost match.
SearchFrom(text, pattern, from) ==
  LET rs == MatchSeq(text, pattern,
                     [i \in 1..(Len(text) + 2 - from) |->
                        [start |-> from + i - 1, pos |-> from + i - 1, caps |-> NoCaps]])
  IN IF rs = <<>> THEN NoMatch
     ELSE [ok |-> TRUE, start |-> rs[1].start, end |-> rs[1].pos, caps |-> rs[1].caps]

\* re.search(pattern, content, re.IGNORECASE): the patterns are written in
\* lower case and run on the lower-cased text.
Search(content, pattern) == SearchFrom(LowerText(content), pattern, 1)

\* re.finditer(pattern, content, re.IGNORECASE): the non-overlapping matches.
RECURSIVE FindFrom(_, _, _)
FindFrom(text, pattern, from) ==
  LET m == SearchFrom(text, pattern, from)
  IN IF ~m.ok THEN <<>>
     ELSE <<m>> \o FindFrom(text, pattern, IF m.end = m.start THEN m.end + 1 ELSE m.end)
FindIter(content, pattern) == FindFrom(LowerText(content), pattern, 1)

\* match.group(0) and match.group(n) as lexeme sequences of the text.
Group0(content, m) == SubSeq(content, m.start, m.end - 1)
GroupSet(m, n) == m.caps[n].set
Group(content, m, n) == SubSeq(content, m.caps[n].s, m.caps[n].e - 1)

(***************************************************************************)
(* EnhancedPatternLibrary: the pattern tables, each regular expression     *)
(* written in lower case (every search of the library is IGNORECASE)       *)
(***************************************************************************)

\* Letter lexemes of the model's texts, lower-cased; a word such as
\* "Monday" or "booking" is cut where a pattern literal ends inside it
\* ("mon" "day", "book" "ing").
\* Runs of letters: Padding brings "always " to the 200 characters a rule
\* description is cut to; with NearPad between 'repair' and a fee the word is
\* just inside the 100 characters of the context, with FarPad it is cut by one
\* character.
Padding ==
  "xxxxxxxxxxxxxxxxxxxxxxxxxxxxxxxxxxxxxxxxxxxxxxxxxxxxxxxxxxxxxxxxxxxxxxxxxxxxxxxxxxxxxxxxxxxxxxxxxxxxxxxxxxxxxxxxxxxxxxxxxxxxxxxxxxxxxxxxxxxxxxxxxxxxxxxxxxxxxxxxxxxxxxxxxxxxxxxxxxxxxxxxxxxxxxxxx"
NearPad ==
  "xxxxxxxxxxxxxxxxxxxxxxxxxxxxxxxxxxxxxxxxxxxxxxxxxxxxxxxxxxxxxxxxxxxxxxxxxxxxxxxxxxxxxxxxxxxxxx"
FarPad ==
  "xxxxxxxxxxxxxxxxxxxxxxxxxxxxxxxxxxxxxxxxxxxxxxxxxxxxxxxxxxxxxxxxxxxxxxxxxxxxxxxxxxxxxxxxxxxxxxx"

Alpha1 == {"a", "s", "t"}
Alpha2 == {"am", "pm", "mon", "fri", "day", "week", "through", "to", "dispatch",
           "fee", "emergency", "fix", "same", "out", "of", "ten", "this", "is",
           "sarah", "never", "end", "call", "with", "book", "ing", "do", "no",
           "service", "gas", "lines", "cash", "hello", "heart", "member",
           "free", "year", "experience", "repair", "always", "cleaning", "maintenance",
           "mia", "here", "off", "over", "review", "estimate", "cover", "everything",
           "in", "one", "visit", "multiple", "issues", "minute", "before", "resolution",
           "ship", "program", "called", "bolt", "welcome", "from", "zed", "thank", "you",
           "for", "lifetime", "warranty", "serving", "denver", "area", "customer", "and",
           "nearby", Padding, NearPad, FarPad}
Alpha == Alpha1 \cup Alpha2
Punct == {"$", ",", "-", "<endash>", ":", ".", "%", "+", "\"", "'", "&", "/", "{", "}"}
AnyLexeme == Alpha \cup Digits \cup WS \cup Punct
           \cup {"agent_greeting", "5-star", "five-star", "tune-up", "first-visit"}

S1 == <<T(WS), S0>>                                  \* \s+
Dot == T(AnyLexeme \ {"\n"})                         \* .
Eol == [k |-> "eol"]                                 \* (?:\n|$) under MULTILINE
WB == [k |-> "wb"]                                   \* \b
Lit(ws) == [i \in 1..Len(ws) |-> W(ws[i])]           \* a literal of several lexemes
Plus(p) == p \o <<Star(p)>>                          \* (?: p )+
\* [A-Z][a-z]+ and [A-Z][A-Za-z]+ : a run of at least two letters
Word == <<Alt(<< <<T(Alpha2)>>, <<T(Alpha1), T(Alpha)>> >>), Star(<<T(Alpha)>>)>>
D12 == T({d \in Digits : Len(d) <= 2})               \* \d{1,2}
D2 == T({d \in Digits : Len(d) = 2})                 \* \d{2}
D4 == T({d \in Digits : Len(d) = 4})                 \* \d{4}
AmPm == T({"am", "pm"})                              \* [AP]M
Dash == T({"-", "<endash>"})                                \* [-\u2013]
Range == Alt(<< <<W("through")>>, <<W("to")>>, <<W("-")>>, <<W("<endash>")>> >>)  \* (?:through|to|-|\u2013)
Money == <<W("$"), G(1, <<D>>)>>                     \* \$(\d+)
FreeOrMoney == Alt(<< <<W("free")>>, <<W("free")>>, Lit(<<"no", " ", "charge">>), Money >>)
Waived == Alt(<< <<W("waived")>>, <<W("waived")>>, Lit(<<"no", " ", "charge">>), <<W("free")>> >>)
WeekDay5 == Alt(<< Lit(<<"mon", "day">>), Lit(<<"tues", "day">>), Lit(<<"wednes", "day">>),
                   Lit(<<"thurs", "day">>), Lit(<<"fri", "day">>) >>)
Clock == <<D12, W(":"), D2, S0, AmPm>>               \* \d{1,2}:\d{2}\s*[AP]M

COMPANY_PATTERNS ==
  [name |-> <<
     \* (?:calling|working at|from|with)\s*["']?([A-Z][A-Za-z]+(?:\s+[A-Z][A-Za-z]+)*\s*(?:HVAC|Plumbing|Electric|Services?)?)["']?
     <<Alt(<< Lit(<<"call", "ing">>), Lit(<<"working", " ", "at">>), <<W("from")>>, <<W("with")>> >>),
       S0, Opt(<<T({"\"", "'"})>>),
       G(1, Word \o <<Star(S1 \o Word), S0,
                      Opt(<<Alt(<< <<W("hvac")>>, <<W("plumbing")>>, <<W("electric")>>,
                                   <<W("service"), Opt(<<W("s")>>)>> >>)>>)>>),
       Opt(<<T({"\"", "'"})>>)>>,
     \* Thank you for calling\s+([^,\.]+)
     Lit(<<"thank", " ", "you", " ", "for", " ", "call", "ing">>) \o S1
       \o <<G(1, Plus(<<T(AnyLexeme \ {",", "."})>>))>>,
     \* Welcome to\s+([^,\.]+)
     Lit(<<"welcome", " ", "to">>) \o S1 \o <<G(1, Plus(<<T(AnyLexeme \ {",", "."})>>))>> >>,
   assistant |-> <<
     \* (?:This is|I'm|My name is|representative named?|agent named?)\s+([A-Z][a-z]+)
     <<Alt(<< Lit(<<"this", " ", "is">>), Lit(<<"i", "'", "m">>),
              Lit(<<"my", " ", "name", " ", "is">>),
              Lit(<<"representative", " ", "name">>) \o <<Opt(<<W("d")>>)>>,
              Lit(<<"agent", " ", "name">>) \o <<Opt(<<W("d")>>)>> >>)>>
       \o S1 \o <<G(1, Word)>>,
     \* ([A-Z][a-z]+)\s+(?:speaking|here|at your service)
     <<G(1, Word)>> \o S1
       \o <<Alt(<< <<W("speaking")>>, <<W("here")>>, Lit(<<"at", " ", "your", " ", "service">>) >>)>>,
     \* agent_greeting:.*?This is\s+([A-Z][a-z]+)
     <<W("agent_greeting"), W(":"), Lazy>> \o Lit(<<"this", " ", "is">>) \o S1 \o <<G(1, Word)>> >>,
   greeting |-> <<
     \* agent_greeting:\s*(.+?)(?:\n|$)
     <<W("agent_greeting"), W(":"), S0, G(1, <<Dot, Lazy>>), Eol>>,
     \* Thank you for calling.*?(?:This is\s+\w+.*?)?(?:\n|$)
     Lit(<<"thank", " ", "you", " ", "for", " ", "call", "ing">>)
       \o <<Lazy, Opt(Lit(<<"this", " ", "is">>) \o S1 \o Plus(<<T(Alpha \cup Digits)>>) \o <<Lazy>>), Eol>> >>]

FEE_PATTERNS ==
  [standard |-> <<
     \* \$(\d+)\s*(?:dispatch|service call|service|visit)\s*fee
     Money \o <<S0, Alt(<< <<W("dispatch")>>, Lit(<<"service", " ", "call">>), <<W("service")>>,
                           <<W("visit")>> >>), S0, W("fee")>>,
     \* dispatch fee.*?\$(\d+)
     Lit(<<"dispatch", " ", "fee">>) \o <<Lazy>> \o Money,
     \* \$(\d+).*?(?:for|covers?).*?(?:service|repair|diagnosis|cleaning|maintenance)
     Money \o <<Lazy, Alt(<< <<W("for")>>, <<W("cover"), Opt(<<W("s")>>)>> >>), Lazy,
                Words(<<"service", "repair", "diagnosis", "cleaning", "maintenance">>)>>,
     \* Service Call.*?\$(\d+)
     Lit(<<"service", " ", "call">>) \o <<Lazy>> \o Money,
     \* (?:repair|cleaning|maintenance).*?\$(\d+)\s*dispatch
     <<Words(<<"repair", "cleaning", "maintenance">>), Lazy>> \o Money \o <<S0, W("dispatch")>> >>,
   emergency |-> <<
     <<W("emergency"), Lazy>> \o Money,                           \* emergency.*?\$(\d+)
     Money \o <<Lazy, W("emergency")>>,                           \* \$(\d+).*?emergency
     Lit(<<"emergency", " ", "call">>) \o <<Lazy>> \o Money >>,   \* Emergency Call.*?\$(\d+)
   estimate |-> <<
     <<W("estimate"), Lazy, FreeOrMoney>>,        \* estimate.*?(?:FREE|free|no charge|\$(\d+))
     <<FreeOrMoney, Lazy, W("estimate")>>,        \* (?:FREE|free|no charge|\$(\d+)).*?estimate
     \* Estimate Visit.*?(?:FREE|\$(\d+))
     Lit(<<"estimate", " ", "visit">>) \o <<Lazy, Alt(<< <<W("free")>>, Money >>)>>,
     \* (?:new installations?|upgrades?|renovations?).*?(?:FREE|\$(\d+))
     <<Alt(<< Lit(<<"new", " ", "installation">>) \o <<Opt(<<W("s")>>)>>,
              <<W("upgrade"), Opt(<<W("s")>>)>>, <<W("renovation"), Opt(<<W("s")>>)>> >>),
       Lazy, Alt(<< <<W("free")>>, Money >>)>> >>,
   member |-> <<
     \* (?:member|membership).*?(?:WAIVED|waived|no charge|free)
     <<Alt(<< <<W("member")>>, Lit(<<"member", "ship">>) >>), Lazy, Waived>>,
     \* (?:WAIVED|waived|no charge|free).*?(?:member|membership)
     <<Waived, Lazy, Alt(<< <<W("member")>>, Lit(<<"member", "ship">>) >>)>>,
     \* (?:HEART|Fresh air)\s+Members?.*?(?:waived|free|no charge)
     <<Alt(<< <<W("heart")>>, Lit(<<"fresh", " ", "air">>) >>)>> \o S1
       \o <<W("member"), Opt(<<W("s")>>), Lazy,
            Alt(<< <<W("waived")>>, <<W("free")>>, Lit(<<"no", " ", "charge">>) >>)>> >>,
   multiple |-> <<
     Lit(<<"multiple", " ", "issues">>) \o <<Lazy>> \o Money,     \* multiple issues.*?\$(\d+)
     \* \$(\d+).*?covers everything.*?one visit
     Money \o <<Lazy>> \o Lit(<<"cover", "s", " ", "everything">>) \o <<Lazy>>
       \o Lit(<<"one", " ", "visit">>) >>]

SCHEDULING_PATTERNS ==
  [days |-> <<
     Lit(<<"mon", "day">>) \o <<Lazy, Range, Lazy>> \o Lit(<<"fri", "day">>),  \* Monday.*?(?:through|to|-|\u2013).*?Friday
     <<W("mon"), Lazy, Range, Lazy, W("fri")>>,                               \* Mon.*?(?:through|to|-|\u2013).*?Fri
     \* (?:Monday|Tuesday|Wednesday|Thursday|Friday)(?:\s*,\s*(?:Monday|Tuesday|Wednesday|Thursday|Friday))+
     <<WeekDay5>> \o Plus(<<S0, W(","), S0, WeekDay5>>),
     \* 7\s*days\s*a\s*week
     <<W("7"), S0, W("day"), W("s"), S0, W("a"), S0, W("week")>>,
     \* (?:weekdays|business days)
     <<Alt(<< Lit(<<"week", "day", "s">>), Lit(<<"business", " ", "day", "s">>) >>)>> >>,
   hours |-> <<
     \* (\d{1,2}:\d{2}\s*[AP]M).*?(?:to|-|\u2013).*?(\d{1,2}:\d{2}\s*[AP]M)
     <<G(1, Clock), Lazy, Alt(<< <<W("to")>>, <<W("-")>>, <<W("<endash>")>> >>), Lazy, G(2, Clock)>>,
     \* (\d{1,2})\s*[AP]M.*?(?:to|-|\u2013).*?(\d{1,2})\s*[AP]M
     <<G(1, <<D12>>), S0, AmPm, Lazy, Alt(<< <<W("to")>>, <<W("-")>>, <<W("<endash>")>> >>), Lazy,
       G(2, <<D12>>), S0, AmPm>> >>,
   slots |-> <<
     \* (?:morning|Morning).*?(\d{1,2}:\d{2}\s*[AP]M).*?(?:to|-|\u2013).*?(\d{1,2}:\d{2}\s*[AP]M)
     <<Words(<<"morning", "morning">>), Lazy, G(1, Clock), Lazy,
       Alt(<< <<W("to")>>, <<W("-")>>, <<W("<endash>")>> >>), Lazy, G(2, Clock)>>,
     \* (?:afternoon|Afternoon).*?(\d{1,2}:\d{2}\s*[AP]M).*?(?:to|-|\u2013).*?(\d{1,2}:\d{2}\s*[AP]M)
     <<Words(<<"afternoon", "afternoon">>), Lazy, G(1, Clock), Lazy,
       Alt(<< <<W("to")>>, <<W("-")>>, <<W("<endash>")>> >>), Lazy, G(2, Clock)>> >>]

MEMBERSHIP_PATTERNS ==
  [program_name |-> <<
     \* ([A-Z][A-Za-z]+)\s+(?:Member|Membership|Program|Club)
     <<G(1, Word)>> \o S1
       \o <<Alt(<< <<W("member")>>, Lit(<<"member", "ship">>), <<W("program")>>, <<W("club")>> >>)>>,
     \* (?:Member|Membership)\s+(?:program|plan|club)\s+(?:called|named)\s+([A-Z][A-Za-z]+)
     <<Alt(<< <<W("member")>>, Lit(<<"member", "ship">>) >>)>> \o S1
       \o <<Words(<<"program", "plan", "club">>)>> \o S1
       \o <<Alt(<< <<W("called")>>, Lit(<<"name", "d">>) >>)>> \o S1 \o <<G(1, Word)>>,
     \* (?:HEART|Fresh air)\s+(?:Member|Membership)
     <<Alt(<< <<W("heart")>>, Lit(<<"fresh", " ", "air">>) >>)>> \o S1
       \o <<Alt(<< <<W("member")>>, Lit(<<"member", "ship">>) >>)>> >>,
   discount |-> <<
     \* (\d+)%\s*(?:off|discount).*?(?:repair|service)
     <<G(1, <<D>>), W("%"), S0, Words(<<"off", "discount">>), Lazy, Words(<<"repair", "service">>)>>,
     \* (?:repair|service).*?(\d+)%\s*(?:off|discount)
     <<Words(<<"repair", "service">>), Lazy, G(1, <<D>>), W("%"), S0, Words(<<"off", "discount">>)>>,
     \* Members?.*?(?:receive|get|save)\s*(\d+)%
     <<W("member"), Opt(<<W("s")>>), Lazy, Words(<<"receive", "get", "save">>), S0,
       G(1, <<D>>), W("%")>> >>,
   warranty |-> <<
     \* (?:lifetime|permanent|extended|unlimited).*?(?:parts.*?labor\s*)?warranty
     <<Words(<<"lifetime", "permanent", "extended", "unlimited">>), Lazy,
       Opt(<<W("parts"), Lazy, W("labor"), S0>>), W("warranty")>>,
     \* warranty.*?(?:lifetime|permanent|extended|unlimited)
     <<W("warranty"), Lazy, Words(<<"lifetime", "permanent", "extended", "unlimited">>)>> >>,
   benefits |-> <<
     \* (?:waive|no|free).*?(?:dispatch|service).*?fee
     <<Words(<<"waive", "no", "free">>), Lazy, Words(<<"dispatch", "service">>), Lazy, W("fee")>>,
     \* (?:priority|preferred).*?(?:scheduling|service)
     <<Words(<<"priority", "preferred">>), Lazy, Words(<<"scheduling", "service">>)>>,
     \* (?:annual|yearly).*?(?:inspection|tune-up|maintenance)
     <<Words(<<"annual", "yearly">>), Lazy, Words(<<"inspection", "tune-up", "maintenance">>)>>,
     \* never pay.*?charge.*?(?:inspect|visit)
     Lit(<<"never", " ", "pay">>) \o <<Lazy, W("charge"), Lazy, Words(<<"inspect", "visit">>)>> >>]

Years == <<W("year"), Opt(<<W("s")>>)>>              \* years?
Count == <<D, Star(<<T({","} \cup Digits)>>)>>       \* \d+[,\d]*
Minutes == <<W("minute"), Opt(<<W("s")>>)>>          \* minutes?

METRICS_PATTERNS ==
  [experience |-> <<
     \* (\d+)\+?\s*years?.*?(?:experience|serving|business|operation)
     <<G(1, <<D>>), Opt(<<W("+")>>), S0>> \o Years
       \o <<Lazy, Words(<<"experience", "serving", "business", "operation">>)>>,
     \* (?:over|more than)\s+(\d+)\s*years?
     <<Alt(<< <<W("over")>>, Lit(<<"more", " ", "than">>) >>)>> \o S1 \o <<G(1, <<D>>), S0>> \o Years,
     \* (?:established|founded|since).*?(\d{4})
     <<Words(<<"established", "founded", "since">>), Lazy, G(1, <<D4>>)>>,
     \* serving.*?(?:for|over)\s*(\d+)\s*years?
     <<W("serving"), Lazy, Words(<<"for", "over">>), S0, G(1, <<D>>), S0>> \o Years >>,
   reviews |-> <<
     \* (\d+[,\d]*)\+?\s*(?:five-star|5-star)?\s*reviews?
     <<G(1, Count), Opt(<<W("+")>>), S0, Opt(<<Words(<<"five-star", "5-star">>)>>), S0,
       W("review"), Opt(<<W("s")>>)>>,
     \* (?:over|more than)\s+(\d+[,\d]*)\s*(?:customer)?\s*reviews?
     <<Alt(<< <<W("over")>>, Lit(<<"more", " ", "than">>) >>)>> \o S1
       \o <<G(1, Count), S0, Opt(<<W("customer")>>), S0, W("review"), Opt(<<W("s")>>)>>,
     \* (?:earned|received)\s*(\d+[,\d]*)\+?\s*reviews?
     <<Words(<<"earned", "received">>), S0, G(1, Count), Opt(<<W("+")>>), S0,
       W("review"), Opt(<<W("s")>>)>> >>,
   resolution_rate |-> <<
     \* (\d+)\s*(?:out of|times out of)\s*(\d+)
     <<G(1, <<D>>), S0,
       Alt(<< Lit(<<"out", " ", "of">>), Lit(<<"times", " ", "out", " ", "of">>) >>),
       S0, G(2, <<D>>)>>,
     \* (\d+)%\s*(?:same-day|first-visit)?\s*resolution
     <<G(1, <<D>>), W("%"), S0,
       Opt(<<Alt(<< Lit(<<"same", "-", "day">>), <<W("first-visit")>> >>)>>), S0, W("resolution")>>,
     \* fix.*?same-day.*?(\d+)\s*(?:out of|times)
     <<W("fix"), Lazy>> \o Lit(<<"same", "-", "day">>)
       \o <<Lazy, G(1, <<D>>), S0, Alt(<< Lit(<<"out", " ", "of">>), <<W("times")>> >>)>> >>,
   notification |-> <<
     \* (\d+)[-–](\d+)\s*minutes?\s*(?:before|ahead|prior)
     <<G(1, <<D>>), Dash, G(2, <<D>>), S0>> \o Minutes
       \o <<S0, Words(<<"before", "ahead", "prior">>)>>,
     \* (?:call|notify).*?(\d+).*?minutes?\s*(?:before|ahead)
     <<Words(<<"call", "notify">>), Lazy, G(1, <<D>>), Lazy>> \o Minutes
       \o <<S0, Words(<<"before", "ahead">>)>>,
     \* call.*?ahead.*?(\d+)[-–]?(\d*)\s*minutes?
     <<W("call"), Lazy, W("ahead"), Lazy, G(1, <<D>>), Opt(<<Dash>>), G(2, <<Opt(<<D>>)>>), S0>>
       \o Minutes >>,
   service_area |-> <<
     \* (?:serving|service area|coverage).*?([A-Za-z\s]+(?:and|&)\s*(?:surrounding|nearby)\s*(?:areas?|cities|towns))
     <<Alt(<< <<W("serving")>>, Lit(<<"service", " ", "area">>), <<W("coverage")>> >>), Lazy,
       G(1, Plus(<<T(Alpha \cup WS)>>)
            \o <<Words(<<"and", "&">>), S0, Words(<<"surrounding", "nearby">>), S0,
                 Alt(<< <<W("area"), Opt(<<W("s")>>)>>, <<W("cities")>>, <<W("towns")>> >>)>>)>>,
     \* ([A-Za-z\s]+)\s*(?:metro|metropolitan)?\s*area
     <<G(1, Plus(<<T(Alpha \cup WS)>>)), S0,
       Opt(<<Alt(<< <<W("metro")>>, Lit(<<"metro", "politan">>) >>)>>), S0, W("area")>>,
     \* serves?\s+([A-Za-z\s]+\s*(?:and|&)?\s*(?:surrounding areas?)?)
     <<W("serve"), Opt(<<W("s")>>)>> \o S1
       \o <<G(1, Plus(<<T(Alpha \cup WS)>>)
                 \o <<S0, Opt(<<Words(<<"and", "&">>)>>), S0,
                      Opt(Lit(<<"surrounding", " ", "area">>) \o <<Opt(<<W("s")>>)>>)>>)>> >>]

\* PAYMENT_PATTERNS, in the order of the dictionary: <<method_name, pattern>>
PAYMENT_PATTERNS == <<
  \* (?:credit|debit)(?:\s*(?:and|&|/)\s*debit)?\s*cards?|major credit cards
  <<"credit_debit",
    <<Alt(<< <<Words(<<"credit", "debit">>), Opt(<<S0, Words(<<"and", "&", "/">>), S0, W("debit")>>),
               S0, W("card"), Opt(<<W("s")>>)>>,
             Lit(<<"major", " ", "credit", " ", "card", "s">>) >>)>> >>,
  <<"cash", <<WB, W("cash"), WB>> >>,                    \* \bcash\b
  <<"check", <<WB, W("check"), WB>> >>,                  \* \bcheck\b
  \* (?:financing|payment plans?|installments?|no[- ]interest)
  <<"financing",
    <<Alt(<< <<W("financing")>>, Lit(<<"payment", " ", "plan">>) \o <<Opt(<<W("s")>>)>>,
             <<W("installment"), Opt(<<W("s")>>)>>, <<W("no"), T({"-", " "}), W("interest")>> >>)>> >>,
  \* (?:online payment|pay online|digital payment)
  <<"online",
    <<Alt(<< Lit(<<"online", " ", "payment">>), Lit(<<"pay", " ", "online">>),
             Lit(<<"digital", " ", "payment">>) >>)>> >>,
  \* (?:ACH|bank transfer|wire transfer)
  <<"ach",
    <<Alt(<< <<W("ach")>>, Lit(<<"bank", " ", "transfer">>), Lit(<<"wire", " ", "transfer">>) >>)>> >> >>

\* no[- ]interest
NoInterest == <<W("no"), T({"-", " "}), W("interest")>>

\* SERVICE_PATTERNS, in the order of the dictionary: <<category_name, pattern>>
SERVICE_PATTERNS == <<
  \* (?:HVAC|heating|cooling|air\s*conditioning|furnace|AC|heat\s*pump)
  <<"HVAC",
    <<Alt(<< <<W("hvac")>>, <<W("heating")>>, <<W("cooling")>>, <<W("air"), S0, W("conditioning")>>,
             <<W("furnace")>>, <<W("ac")>>, <<W("heat"), S0, W("pump")>> >>)>> >>,
  \* (?:plumb(?:ing|er)|pipe|drain|water\s*heater|faucet|toilet|sink)
  <<"Plumbing",
    <<Alt(<< <<W("plumb"), Words(<<"ing", "er">>)>>, <<W("pipe")>>, <<W("drain")>>,
             <<W("water"), S0, W("heater")>>, <<W("faucet")>>, <<W("toilet")>>, <<W("sink")>> >>)>> >>,
  \* (?:electric(?:al|ian)?|wiring|outlet|breaker|panel|lighting)
  <<"Electrical",
    <<Alt(<< <<W("electric"), Opt(<<Words(<<"al", "ian">>)>>)>>, <<W("wiring")>>, <<W("outlet")>>,
             <<W("breaker")>>, <<W("panel")>>, <<W("lighting")>> >>)>> >>,
  \* emergency\s*(?:service|repair|call|response)
  <<"Emergency", <<W("emergency"), S0, Words(<<"service", "repair", "call", "response">>)>> >>,
  \* (?:maintenance|tune[- ]up|inspection|preventive|cleaning)
  <<"Maintenance",
    <<Alt(<< <<W("maintenance")>>, <<W("tune-up")>>, Lit(<<"tune", " ", "up">>), <<W("inspection")>>,
             <<W("preventive")>>, <<W("cleaning")>> >>)>> >>,
  \* (?:installation|install|replacement|upgrade)
  <<"Installation", <<Words(<<"installation", "install", "replacement", "upgrade">>)>> >>,
  \* (?:repair|fix|service|troubleshoot)
  <<"Repair", <<Words(<<"repair", "fix", "service", "troubleshoot">>)>> >> >>

\* RULE_PATTERNS, in the order of the dictionary: <<rule_type, patterns>>
RULE_PATTERNS == <<
  <<"scheduling", <<
     \* (?:NEVER|never|ALWAYS|always|MUST|must|ONLY|only).*?(?:availability|appointment|schedule|slot|book)
     <<Words(<<"never", "never", "always", "always", "must", "must", "only", "only">>), Lazy,
       Words(<<"availability", "appointment", "schedule", "slot", "book">>)>>,
     \* (?:CRITICAL|critical).*?(?:scheduling|booking|availability)
     <<Words(<<"critical", "critical">>), Lazy,
       Alt(<< <<W("scheduling")>>, Lit(<<"book", "ing">>), <<W("availability")>> >>)>>,
     \* NEVER END A CALL WITHOUT BOOKING
     Lit(<<"never", " ", "end", " ", "a", " ", "call", " ", "with", "out", " ", "book", "ing">>) >> >>,
  <<"pricing", <<
     \* (?:NEVER|never|ALWAYS|always).*?(?:price|quote|estimate).*?(?:phone|call)
     <<Words(<<"never", "never", "always", "always">>), Lazy, Words(<<"price", "quote", "estimate">>),
       Lazy, Words(<<"phone", "call">>)>>,
     \* DO NOT provide.*?pricing
     Lit(<<"do", " ", "no", "t", " ", "provide">>) \o <<Lazy, W("pricing")>> >> >>,
  <<"service", <<
     \* (?:DO NOT|don't|cannot|will not).*?(?:service|work on|handle)
     <<Alt(<< Lit(<<"do", " ", "no", "t">>), Lit(<<"don", "'", "t">>), Lit(<<"can", "no", "t">>),
              Lit(<<"will", " ", "no", "t">>) >>), Lazy,
       Alt(<< <<W("service")>>, Lit(<<"work", " ", "on">>), <<W("handle")>> >>)>> >> >> >>

(***************************************************************************)
(* Helpers of the detection engine                                         *)
(***************************************************************************)

\* The number of capture groups of a pattern (re.Pattern.groups).
RECURSIVE NumGroups(_)
RECURSIVE NumGroupsAlt(_, _)
NumGroups(p) ==
  IF Len(p) = 0 THEN 0
  ELSE LET e == Head(p)
       IN (CASE e.k = "grp" -> 1 + NumGroups(e.p)
             [] e.k \in {"opt", "star"} -> NumGroups(e.p)
             [] e.k = "alt" -> NumGroupsAlt(e.ps, 1)
             [] OTHER -> 0) + NumGroups(Tail(p))
NumGroupsAlt(ps, i) == IF i > Len(ps) THEN 0 ELSE NumGroups(ps[i]) + NumGroupsAlt(ps, i + 1)

\* match.group(n) raises IndexError ("no such group") when the pattern has
\* fewer than n groups.
NoSuchGroup(pattern, n) == n > NumGroups(pattern)

\* match.lastindex (None is 0): the last group that took part in the match.
LastIndex(m) == IF m.caps[2].set THEN 2 ELSE IF m.caps[1].set THEN 1 ELSE 0

\* str(match.group(n)) inside an f-string: "None" for a group that took no part.
GroupStr(content, m, n) == IF GroupSet(m, n) THEN Join(Group(content, m, n)) ELSE "None"

\* A cascade that goes on after a match and keeps the last pattern that matches.
RECURSIVE LastMatchFrom(_, _, _)
LastMatchFrom(content, patterns, i) ==
  IF i < 1 THEN [i |-> 0, m |-> NoMatch]
  ELSE LET m == Search(content, patterns[i])
       IN IF m.ok THEN [i |-> i, m |-> m] ELSE LastMatchFrom(content, patterns, i - 1)

\* The first pattern of a cascade that matches (for pattern in ...: if match: ... break).
RECURSIVE FirstMatchFrom(_, _, _)
FirstMatchFrom(content, patterns, i) ==
  IF i > Len(patterns) THEN [i |-> 0, m |-> NoMatch]
  ELSE LET m == Search(content, patterns[i])
       IN IF m.ok THEN [i |-> i, m |-> m] ELSE FirstMatchFrom(content, patterns, i + 1)
FirstMatch_Last(content, patterns) == LastMatchFrom(content, patterns, Len(patterns))
FirstMatch(content, patterns) == FirstMatchFrom(content, patterns, 1)

\* str.strip(chars) on a lexeme sequence.
RECURSIVE LStrip(_, _)
LStrip(t, chars) == IF t # <<>> /\ Head(t) \in chars THEN LStrip(Tail(t), chars) ELSE t
RECURSIVE RStrip(_, _)
RStrip(t, chars) ==
  IF t # <<>> /\ t[Len(t)] \in chars THEN RStrip(SubSeq(t, 1, Len(t) - 1), chars) ELSE t
Strip(t, chars) == RStrip(LStrip(t, chars), chars)

\* The number of characters of a lexeme sequence (len of the Python string).
RECURSIVE CharLen(_)
CharLen(t) == IF t = <<>> THEN 0 ELSE Len(Head(t)) + CharLen(Tail(t))

\* Whether x is in a Python list.
InList(x, list) == \E i \in 1..Len(list) : list[i] = x

(***************************************************************************)
(* ExtractedServiceInfo and its parts (the dataclasses)                    *)
(***************************************************************************)

CompanyInfo == [company_name |-> "", assistant_name |-> "", greeting |-> "", tagline |-> ""]
DispatchFee(service_type, amount, conditions) ==
  [service_type |-> service_type, amount |-> amount, conditions |-> conditions, notes |-> ""]
SchedulingInfo ==
  [operating_days |-> <<>>, total_hours |-> "", morning_slots |-> "", afternoon_slots |-> "",
   emergency_hours |-> ""]
MembershipBenefits ==
  [program_name |-> "", dispatch_fee |-> "", repair_discount |-> "", warranty |-> "",
   other_benefits |-> <<>>]
OperationalMetrics ==
  [same_day_resolution |-> "", call_ahead_notification |-> "", company_experience |-> "",
   customer_reviews |-> "", service_area |-> "", response_time |-> ""]
PaymentInfo == [accepted_methods |-> <<>>, payment_plans |-> "", billing_terms |-> ""]
ServiceCategory(name, subcategories) ==
  [name |-> name, description |-> "", subcategories |-> subcategories]
SchedulingRule(rule_type, description, priority) ==
  [rule_type |-> rule_type, description |-> description, priority |-> priority]
ExtractedServiceInfo ==
  [company_info |-> CompanyInfo, dispatch_fees |-> <<>>, scheduling |-> SchedulingInfo,
   membership |-> MembershipBenefits, metrics |-> OperationalMetrics, payment |-> PaymentInfo,
   service_categories |-> <<>>, scheduling_rules |-> <<>>, raw_data |-> <<>>]

(***************************************************************************)
(* EnhancedServiceDetector: the group detectors.  Each maps the content    *)
(* and the aggregate to the aggregate it leaves behind.                    *)
(***************************************************************************)

\* The assignments of _detect_company_info, each for the outcome n of its
\* cascade (lines 358-378).
CompanyName(content, info, n) ==
  IF n.i = 0 THEN info
  ELSE [info EXCEPT !.company_info.company_name =
          Join(Strip(Group(content, n.m, 1), {" ", "\"", "'", ","}))]
AssistantName(content, info, n) ==
  IF n.i = 0 THEN info
  ELSE [info EXCEPT !.company_info.assistant_name = Join(Group(content, n.m, 1))]
Greeting(content, info, n) ==
  IF n.i = 0 THEN info
  ELSE [info EXCEPT !.company_info.greeting = Join(Strip(Group0(content, n.m), WS))]

_detect_company_info(content, info) ==
  Greeting(content,
    AssistantName(content,
      CompanyName(content, info, FirstMatch(content, COMPANY_PATTERNS.name)),
      FirstMatch(content, COMPANY_PATTERNS.assistant)),
    FirstMatch(content, COMPANY_PATTERNS.greeting))

\* The context window of a standard fee match, in characters on each side (line 392).
ContextChars == 100

\* A context that is the whole text.
InContext_WholeText(content, m, word) == \E j \in 1..Len(content) : Lower(content[j]) = word

\* word in content[max(0, match.start()-100):match.end()+100].lower(), for a
\* word that is one lexeme: some occurrence lies wholly inside the window.
InContext(content, m, word) ==
  LET lo == CharLen(SubSeq(content, 1, m.start - 1)) - ContextChars
      hi == CharLen(SubSeq(content, 1, m.end - 1)) + ContextChars
  IN \E j \in 1..Len(content) :
        /\ Lower(content[j]) = word
        /\ CharLen(SubSeq(content, 1, j - 1)) >= (IF lo < 0 THEN 0 ELSE lo)
        /\ CharLen(SubSeq(content, 1, j)) <= hi

\* The matches of the standard fee patterns in the order the loops visit them.
RECURSIVE StandardMatches(_, _)
StandardMatches(content, i) ==
  IF i > Len(FEE_PATTERNS.standard) THEN <<>>
  ELSE FindIter(content, FEE_PATTERNS.standard[i]) \o StandardMatches(content, i + 1)

\* The service type of a standard fee, from its context (lines 392-399).
StandardServiceType(content, m) ==
  IF InContext(content, m, "repair") THEN "Service Call (Repairs)"
  ELSE IF InContext(content, m, "cleaning") \/ InContext(content, m, "maintenance")
       THEN "Service Call (Cleaning/Maintenance)"
       ELSE "Standard Service Call"

\* A loop that never skips a standard fee match.
StandardSeen_Never(fee_key, fees_found) == FALSE

\* Whether a standard fee match is skipped (fee_key in fees_found, line 390).
StandardSeen(fee_key, fees_found) == fee_key \in fees_found

\* The loop over the standard matches: the fees appended, with fees_found.
RECURSIVE StandardFees(_, _, _, _, _)
StandardFees(content, ms, k, fees, fees_found) ==
  IF k > Len(ms) THEN fees
  ELSE LET amount == "$" \o GroupStr(content, ms[k], 1)
           fee_key == "standard_" \o amount
       IN IF StandardSeen(fee_key, fees_found)
          THEN StandardFees(content, ms, k + 1, fees, fees_found)
          ELSE StandardFees(content, ms, k + 1,
                 Append(fees, DispatchFee(StandardServiceType(content, ms[k]), amount,
                                          "credited toward work if customer proceeds")),
                 fees_found \cup {fee_key})

\* An emergency fee put at the head of the list.
EmergencyFee_First(content, fees, n) ==
  IF n.i = 0 THEN fees
  ELSE <<DispatchFee("Emergency Call", "$" \o GroupStr(content, n.m, 1),
                     "credited toward work if customer proceeds")>> \o fees

\* The fee of a first-match cascade, appended when a pattern matched
\* (lines 409-457); n is the outcome of the cascade.
EmergencyFee(content, fees, n) ==
  IF n.i = 0 THEN fees
  ELSE Append(fees, DispatchFee("Emergency Call", "$" \o GroupStr(content, n.m, 1),
                                "credited toward work if customer proceeds"))
EstimateAmount(content, m) ==
  IF Contains(LowerText(Group0(content, m)), <<"free">>) THEN "FREE"
  ELSE IF GroupSet(m, 1) /\ Group(content, m, 1) # <<>>
       THEN "$" \o GroupStr(content, m, 1)
       ELSE "$49"
EstimateFee(content, fees, n) ==
  IF n.i = 0 THEN fees
  ELSE Append(fees, DispatchFee("Estimate Visit", EstimateAmount(content, n.m),
                                "for new installations, upgrades, renovations"))
MemberFee(content, fees, n) ==
  IF n.i = 0 THEN fees
  ELSE Append(fees, DispatchFee("Members", "WAIVED", "for program members"))
MultipleFee(content, fees, n) ==
  IF n.i = 0 THEN fees
  ELSE Append(fees, DispatchFee("Multiple Issues", "$" \o GroupStr(content, n.m, 1),
                                "covers everything in one visit"))

_detect_dispatch_fees(content, info) ==
  [info EXCEPT !.dispatch_fees =
     MultipleFee(content,
       MemberFee(content,
         EstimateFee(content,
           EmergencyFee(content,
             StandardFees(content, StandardMatches(content, 1), 1, @, {}),
             FirstMatch(content, FEE_PATTERNS.emergency)),
           FirstMatch(content, FEE_PATTERNS.estimate)),
         FirstMatch(content, FEE_PATTERNS.member)),
       FirstMatch(content, FEE_PATTERNS.multiple))]

\* int(hour_match.group(1)) for the digit runs of the model's texts.
IntOf(d) ==
  CASE d = "00" -> 0 [] d = "1" -> 1 [] d = "2" -> 2 [] d = "3" -> 3 [] d = "4" -> 4
    [] d = "5" -> 5 [] d = "6" -> 6 [] d = "7" -> 7 [] d = "8" -> 8 [] d = "9" -> 9
    [] d = "10" -> 10 [] d = "11" -> 11 [] d = "12" -> 12 [] d = "89" -> 89 [] d = "150" -> 150

\* _parse_hour(time_str): the hour on the 24-hour clock, None when the string
\* does not start with a digit.
_parse_hour(time_str) ==
  IF time_str # <<>> /\ Head(time_str) \in Digits /\ Len(Head(time_str)) <= 2
  THEN LET hour == IntOf(Head(time_str))
           upper == [i \in 1..Len(time_str) |-> Upper(time_str[i])]
       IN IF Contains(upper, <<"PM">>) /\ hour # 12 THEN [none |-> FALSE, hour |-> hour + 12]
          ELSE IF Contains(upper, <<"AM">>) /\ hour = 12 THEN [none |-> FALSE, hour |-> 0]
               ELSE [none |-> FALSE, hour |-> hour]
  ELSE [none |-> TRUE, hour |-> 0]

\* Truthiness of an Optional[int]: neither None nor 0.
Truthy(h) == ~h.none /\ h.hour # 0

Mon_Fri == <<"Monday", "Tuesday", "Wednesday", "Thursday", "Friday">>
Mon_Sun == <<"Monday", "Tuesday", "Wednesday", "Thursday", "Friday", "Saturday", "Sunday">>

\* The operating days for a match of a days pattern (lines 465-474).
OperatingDays(g0) ==
  IF Contains(LowerText(g0), <<"7", " ", "day", "s">>) THEN Mon_Sun
  ELSE IF Contains(LowerText(g0), <<"week", "day">>)
            \/ Contains(LowerText(g0), <<"business", " ", "day">>)
       THEN Mon_Fri
       ELSE Mon_Fri

\* The cascade with the "7 days a week" pattern tried first.
DaysMatch_SevenDaysFirst(content) ==
  FirstMatch(content, <<SCHEDULING_PATTERNS.days[4], SCHEDULING_PATTERNS.days[1],
                        SCHEDULING_PATTERNS.days[2], SCHEDULING_PATTERNS.days[3],
                        SCHEDULING_PATTERNS.days[5]>>)

\* The cascade over the days patterns (lines 462-475).
DaysMatch(content) == FirstMatch(content, SCHEDULING_PATTERNS.days)

\* The assignments of _detect_scheduling (lines 462-496): the days for the
\* outcome n of the days cascade, the hours and slots for groups g1 and g2 of
\* the hours match.
Days(content, info, n) ==
  IF n.i = 0 THEN info
  ELSE [info EXCEPT !.scheduling.operating_days = OperatingDays(Group0(content, n.m))]
MorningSlots(scheduling, g1, start_hour, end_hour) ==
  IF Truthy(start_hour) /\ Truthy(end_hour) /\ start_hour.hour < 12
  THEN [scheduling EXCEPT !.morning_slots = Join(g1) \o " - 12:00 PM"]
  ELSE scheduling
AfternoonSlots(content, scheduling, g2, start_hour, end_hour) ==
  IF Truthy(start_hour) /\ Truthy(end_hour) /\ end_hour.hour > 12
  THEN [scheduling EXCEPT !.afternoon_slots =
          IF Contains(content, <<"5", ":", "00", " ", "PM">>)
               \/ Contains(content, <<"5", " ", "PM">>)
          THEN "12:00 PM - 5:00 PM"
          ELSE "12:00 PM - " \o Join(g2)]
  ELSE scheduling
HoursOf(content, scheduling, g1, g2) ==
  AfternoonSlots(content,
    MorningSlots([scheduling EXCEPT !.total_hours = Join(g1) \o " - " \o Join(g2)],
                 g1, _parse_hour(g1), _parse_hour(g2)),
    g2, _parse_hour(g1), _parse_hour(g2))
Hours(content, info, n) ==
  IF n.i = 0 THEN info
  ELSE [info EXCEPT !.scheduling =
          HoursOf(content, @, Group(content, n.m, 1), Group(content, n.m, 2))]

_detect_scheduling(content, info) ==
  Hours(content, Days(content, info, DaysMatch(content)),
        FirstMatch(content, SCHEDULING_PATTERNS.hours))

\* What a group detector leaves: the aggregate, and whether it raised.
Returned(info) == [info |-> info, raised |-> FALSE]
Raised(info) == [info |-> info, raised |-> TRUE]

\* list.append(x) unless x is in the list already.
AppendNew(list, x) == IF InList(x, list) THEN list ELSE Append(list, x)

\* The matches of the benefit patterns in the order the loops visit them.
RECURSIVE BenefitMatches(_, _)
BenefitMatches(content, i) ==
  IF i > Len(MEMBERSHIP_PATTERNS.benefits) THEN <<>>
  ELSE FindIter(content, MEMBERSHIP_PATTERNS.benefits[i]) \o BenefitMatches(content, i + 1)

\* The loop over the benefit matches (lines 529-541).
RECURSIVE Benefits(_, _, _, _)
Benefits(content, ms, k, membership) ==
  IF k > Len(ms) THEN membership
  ELSE LET g0 == LowerText(Group0(content, ms[k]))
           next ==
             IF Contains(g0, <<"waive">>) \/ Contains(g0, <<"free">>)
             THEN [membership EXCEPT !.dispatch_fee = "WAIVED",
                     !.other_benefits = AppendNew(@, "Free service visits")]
             ELSE IF Contains(g0, <<"priority">>)
                  THEN [membership EXCEPT !.other_benefits = AppendNew(@, "Priority scheduling")]
                  ELSE IF Contains(g0, <<"never", " ", "pay">>)
                       THEN [membership EXCEPT !.other_benefits =
                               AppendNew(@, "No charge for expert inspections")]
                       ELSE membership
       IN Benefits(content, ms, k + 1, next)

\* The assignments of _detect_membership_benefits (lines 501-526), each for
\* the outcome n of its cascade.
ProgramNameOf(content, m) ==
  IF Contains(Group0(content, m), <<"HEART">>) THEN "HEART Membership"
  ELSE IF Contains(Group0(content, m), <<"Fresh", " ", "air">>) THEN "Fresh air Membership"
       ELSE Join(Group(content, m, 1)) \o " Membership"
ProgramName(content, info, n) ==
  IF n.i = 0 THEN info
  ELSE [info EXCEPT !.membership.program_name = ProgramNameOf(content, n.m)]
\* match.group(1) of a program name pattern without a group raises (line 510).
ProgramNameRaises(content, n) ==
  /\ n.i # 0
  /\ ~Contains(Group0(content, n.m), <<"HEART">>)
  /\ ~Contains(Group0(content, n.m), <<"Fresh", " ", "air">>)
  /\ NoSuchGroup(MEMBERSHIP_PATTERNS.program_name[n.i], 1)
RepairDiscount(content, info, n) ==
  IF n.i = 0 THEN info
  ELSE [info EXCEPT !.membership.repair_discount = GroupStr(content, n.m, 1) \o "% off all repairs"]
Warranty(content, info, n) ==
  IF n.i = 0 THEN info
  ELSE [info EXCEPT !.membership.warranty = "Lifetime parts and labor warranty"]
OtherBenefits(content, info) ==
  [info EXCEPT !.membership = Benefits(content, BenefitMatches(content, 1), 1, @)]

_detect_membership_benefits(content, info) ==
  IF ProgramNameRaises(content, FirstMatch(content, MEMBERSHIP_PATTERNS.program_name))
  THEN Raised(info)
  ELSE Returned(
         OtherBenefits(content,
           Warranty(content,
             RepairDiscount(content,
               ProgramName(content, info,
                           FirstMatch(content, MEMBERSHIP_PATTERNS.program_name)),
               FirstMatch(content, MEMBERSHIP_PATTERNS.discount)),
             FirstMatch(content, MEMBERSHIP_PATTERNS.warranty))))

\* str.replace(',', '') on a lexeme sequence.
RECURSIVE DropCommas(_)
DropCommas(t) ==
  IF t = <<>> THEN <<>>
  ELSE (IF Head(t) = "," THEN <<>> ELSE <<Head(t)>>) \o DropCommas(Tail(t))

\* The same-day resolution of a match of pattern i (lines 571-574); group(2)
\* of a pattern with one group raises.
ResolutionRaises(content, rr) ==
  /\ rr.i # 0
  /\ Contains(Group0(content, rr.m), <<"out", " ", "of">>)
  /\ NoSuchGroup(METRICS_PATTERNS.resolution_rate[rr.i], 2)
ResolutionText(content, rr) ==
  IF Contains(Group0(content, rr.m), <<"out", " ", "of">>)
  THEN GroupStr(content, rr.m, 1) \o " out of " \o GroupStr(content, rr.m, 2) \o " times"
  ELSE GroupStr(content, rr.m, 1) \o "% same-day resolution"

\* The assignments of _detect_metrics (lines 546-592), each for the outcome n
\* of its cascade.
Experience(content, info, n) ==
  IF n.i = 0 THEN info
  ELSE [info EXCEPT !.metrics.company_experience =
          IF Contains(LowerText(content), <<"colorado">>)
          THEN GroupStr(content, n.m, 1) \o "+ years in Colorado"
          ELSE GroupStr(content, n.m, 1) \o "+ years"]
ReviewsText(count, g0) ==
  IF Contains(g0, <<"five-star">>) \/ Contains(g0, <<"5-star">>)
  THEN count \o "+ five-star reviews"
  ELSE count \o "+ reviews"
Reviews(content, info, n) ==
  IF n.i = 0 THEN info
  ELSE [info EXCEPT !.metrics.customer_reviews =
          ReviewsText(Join(DropCommas(Group(content, n.m, 1))),
                      LowerText(Group0(content, n.m)))]
Resolution(content, info, n) ==
  IF n.i = 0 THEN info
  ELSE [info EXCEPT !.metrics.same_day_resolution = ResolutionText(content, n)]
Notification(content, info, n) ==
  IF n.i = 0 THEN info
  ELSE [info EXCEPT !.metrics.call_ahead_notification =
          IF LastIndex(n.m) > 1 /\ Group(content, n.m, 2) # <<>>
          THEN GroupStr(content, n.m, 1) \o "-" \o GroupStr(content, n.m, 2)
                 \o " minutes before arrival"
          ELSE GroupStr(content, n.m, 1) \o " minutes before arrival"]
ServiceArea(content, info, n) ==
  IF n.i = 0 THEN info
  ELSE [info EXCEPT !.metrics.service_area = Join(Strip(Group(content, n.m, 1), WS))]
\* The assignments before the resolution rate is read.
BeforeResolution(content, info) ==
  Reviews(content,
    Experience(content, info, FirstMatch(content, METRICS_PATTERNS.experience)),
    FirstMatch(content, METRICS_PATTERNS.reviews))

_detect_metrics(content, info) ==
  IF ResolutionRaises(content, FirstMatch(content, METRICS_PATTERNS.resolution_rate))
  THEN Raised(BeforeResolution(content, info))
  ELSE Returned(
         ServiceArea(content,
           Notification(content,
             Resolution(content, BeforeResolution(content, info),
                        FirstMatch(content, METRICS_PATTERNS.resolution_rate)),
             FirstMatch(content, METRICS_PATTERNS.notification)),
           FirstMatch(content, METRICS_PATTERNS.service_area)))

\* The label of a payment method that matched (lines 600-616).
MethodLabel(content, method_name) ==
  CASE method_name = "credit_debit" -> "Credit/Debit Cards"
    [] method_name = "cash" -> "Cash"
    [] method_name = "check" -> "Check"
    [] method_name = "financing" ->
         IF Search(content, NoInterest).ok THEN "No-interest payment plans" ELSE "Payment Plans"
    [] method_name = "online" -> "Online Payment"
    [] method_name = "ach" -> "ACH/Bank Transfer"

RECURSIVE Methods(_, _)
Methods(content, i) ==
  IF i > Len(PAYMENT_PATTERNS) THEN <<>>
  ELSE (IF Search(content, PAYMENT_PATTERNS[i][2]).ok
        THEN <<MethodLabel(content, PAYMENT_PATTERNS[i][1])>>
        ELSE <<>>) \o Methods(content, i + 1)

\* The assignments of _detect_payment_info for the methods found (lines 597-618).
PaymentOf(payment, methods) ==
  [payment EXCEPT !.accepted_methods = methods,
                  !.payment_plans = IF InList("No-interest payment plans", methods)
                                    THEN "No-interest payment plans (for qualifying projects)"
                                    ELSE @]

_detect_payment_info(content, info) ==
  [info EXCEPT !.payment = PaymentOf(@, Methods(content, 1))]

\* if re.search(pattern, content, re.IGNORECASE): subcategories.append(label)
Sub(content, pattern, label) == IF Search(content, pattern).ok THEN <<label>> ELSE <<>>

\* The subcategories of a category that matched (lines 625-655).
Subcategories(content, category_name) ==
  CASE category_name = "HVAC" ->
         Sub(content, <<W("heating")>>, "Heating")
           \o Sub(content, <<Alt(<< <<W("cooling")>>, <<W("air"), S0, W("conditioning")>>,
                                    <<W("ac")>> >>)>>, "Cooling")
           \o Sub(content, <<W("furnace")>>, "Furnace")
    [] category_name = "Plumbing" ->
         Sub(content, <<W("drain")>>, "Drain Services")
           \o Sub(content, <<W("water"), S0, W("heater")>>, "Water Heater")
           \o Sub(content, <<W("pipe")>>, "Pipe Repair")
           \o Sub(content, <<W("faucet")>>, "Faucet Repair")
           \o Sub(content, <<W("toilet")>>, "Toilet Services")
    [] category_name = "Electrical" ->
         Sub(content, <<W("panel")>>, "Panel Upgrades")
           \o Sub(content, <<W("wiring")>>, "Wiring")
           \o Sub(content, <<W("lighting")>>, "Lighting")
           \o Sub(content, <<W("outlet")>>, "Outlets")
    [] OTHER -> <<>>

RECURSIVE Categories(_, _)
Categories(content, i) ==
  IF i > Len(SERVICE_PATTERNS) THEN <<>>
  ELSE (IF Search(content, SERVICE_PATTERNS[i][2]).ok
        THEN <<ServiceCategory(SERVICE_PATTERNS[i][1], Subcategories(content, SERVICE_PATTERNS[i][1]))>>
        ELSE <<>>) \o Categories(content, i + 1)

_detect_service_categories(content, info) ==
  [info EXCEPT !.service_categories = @ \o Categories(content, 1)]

\* The length a rule description is cut to (line 678).
DescriptionChars == 200

\* rule_text[:200], for a cut that falls between two lexemes.
RECURSIVE Truncate(_, _)
Truncate(t, n) ==
  IF t = <<>> \/ Len(Head(t)) > n THEN <<>>
  ELSE <<Head(t)>> \o Truncate(Tail(t), n - Len(Head(t)))

\* A priority read from the rule text as it is written.
Priority_AsWritten(rule_text) ==
  IF \E word \in {"CRITICAL", "NEVER", "ALWAYS", "MUST"} : Contains(rule_text, <<word>>)
  THEN "critical" ELSE "normal"

\* The priority of a rule text (lines 671-672).
Priority(rule_text) ==
  LET upper == [i \in 1..Len(rule_text) |-> Upper(rule_text[i])]
  IN IF \E word \in {"CRITICAL", "NEVER", "ALWAYS", "MUST"} : Contains(upper, <<word>>)
     THEN "critical" ELSE "normal"

\* The matches of the rule patterns in the order the loops visit them, each
\* with its rule type: <<rule_type, match>>.
RECURSIVE RuleMatchesOf(_, _, _, _)
RuleMatchesOf(content, rule_type, patterns, i) ==
  IF i > Len(patterns) THEN <<>>
  ELSE LET ms == FindIter(content, patterns[i])
       IN [k \in 1..Len(ms) |-> <<rule_type, ms[k]>>]
            \o RuleMatchesOf(content, rule_type, patterns, i + 1)
RECURSIVE RuleMatches(_, _)
RuleMatches(content, t) ==
  IF t > Len(RULE_PATTERNS) THEN <<>>
  ELSE RuleMatchesOf(content, RULE_PATTERNS[t][1], RULE_PATTERNS[t][2], 1)
         \o RuleMatches(content, t + 1)

\* Whether a rule text is skipped as a duplicate (line 675).
RuleSeen(rule_text, rules) == \E i \in 1..Len(rules) : rules[i].description = Join(rule_text)

\* The loop over the rule matches (lines 667-680).
RECURSIVE Rules(_, _, _, _)
Rules(content, ms, k, rules) ==
  IF k > Len(ms) THEN rules
  ELSE LET rule_text == Strip(Group0(content, ms[k][2]), WS)
       IN IF RuleSeen(rule_text, rules) THEN Rules(content, ms, k + 1, rules)
          ELSE Rules(content, ms, k + 1,
                     Append(rules, SchedulingRule(ms[k][1],
                                                  Join(Truncate(rule_text, DescriptionChars)),
                                                  Priority(rule_text))))

\* A rules detector that looks at the company name another detector stores.
_detect_scheduling_rules_Named(content, info) ==
  IF info.company_info.company_name = "" THEN info
  ELSE [info EXCEPT !.scheduling_rules = Rules(content, RuleMatches(content, 1), 1, @)]
_detect_scheduling_rules(content, info) ==
  [info EXCEPT !.scheduling_rules = Rules(content, RuleMatches(content, 1), 1, @)]

\* A check that reports information whatever the aggregate holds.
_has_detected_info_Always(info) == TRUE

\* _has_detected_info(info): any([...]) over the eight fields it lists.
_has_detected_info(info) ==
  \/ info.company_info.company_name # ""
  \/ info.dispatch_fees # <<>>
  \/ info.scheduling.operating_days # <<>>
  \/ info.membership.program_name # ""
  \/ info.metrics.company_experience # ""
  \/ info.payment.accepted_methods # <<>>
  \/ info.service_categories # <<>>
  \/ info.scheduling_rules # <<>>

\* Optional[ExtractedServiceInfo]
None == [none |-> TRUE]
Some(info) == [none |-> FALSE, info |-> info]

RunStep(step, content, info) ==
  CASE step = "company" -> Returned(_detect_company_info(content, info))
    [] step = "fees" -> Returned(_detect_dispatch_fees(content, info))
    [] step = "scheduling" -> Returned(_detect_scheduling(content, info))
    [] step = "membership" -> _detect_membership_benefits(content, info)
    [] step = "metrics" -> _detect_metrics(content, info)
    [] step = "payment" -> Returned(_detect_payment_info(content, info))
    [] step = "categories" -> Returned(_detect_service_categories(content, info))
    [] step = "rules" -> Returned(_detect_scheduling_rules(content, info))

\* Each group detector in its own try block: control goes on to the next one
\* whether or not it raised.
AfterStep_Isolating(step, raised) ==
  CASE step = "company" -> "fees"
    [] step = "fees" -> "scheduling"
    [] step = "scheduling" -> "membership"
    [] step = "membership" -> "metrics"
    [] step = "metrics" -> "payment"
    [] step = "payment" -> "categories"
    [] step = "categories" -> "rules"
    [] step = "rules" -> "finish"

\* Where control goes after a group detector: to the next one, to the end of
\* the try block, or to the except clause when it raised.
AfterStep(step, raised) ==
  IF raised THEN "except"
  ELSE CASE step = "company" -> "fees"
         [] step = "fees" -> "scheduling"
         [] step = "scheduling" -> "membership"
         [] step = "membership" -> "metrics"
         [] step = "metrics" -> "payment"
         [] step = "payment" -> "categories"
         [] step = "categories" -> "rules"
         [] step = "rules" -> "finish"

\* The try block from the detector at pc on: the aggregate, and where it ends.
RECURSIVE RunFrom(_, _, _)
RECURSIVE RunOn(_, _, _)
RunFrom(content, info, at) ==
  IF at \in {"finish", "except"} THEN [info |-> info, raised |-> at = "except"]
  ELSE RunOn(content, at, RunStep(at, content, info))

\* The try block after the detector at pc left r.
RunOn(content, at, r) == RunFrom(content, r.info, AfterStep(at, r.raised))

\* except Exception (line 351): the exceptions the clause catches.
Catches(exc) == exc \in {"IndexError", "TypeError"}

\* A raw_data whose length field is read off the clock.
RawData_FromClock(content, now) ==
  [content_length |-> now, extraction_complete |-> TRUE, extracted_at |-> now]

\* info.raw_data of a finished pass (lines 337-341).
RawData(content, now) ==
  [content_length |-> CharLen(content), extraction_complete |-> TRUE, extracted_at |-> now]

\* An except clause that returns what the detectors had filled in.
OnException_Partial(info) == Some(info)

\* What the except clause returns for the aggregate filled so far (lines 351-353).
OnException(info) == None

\* The end of the try block (lines 337-349) for the aggregate with its
\* raw_data.
ReturnDetected(info) == IF _has_detected_info(info) THEN Some(info) ELSE None

\* What detect returns when the group detectors left r.
DetectReturn(content, now, r) ==
  IF r.raised THEN OnException(r.info)
  ELSE ReturnDetected([r.info EXCEPT !.raw_data = RawData(content, now)])

\* detect(content), run at time now.
detect(content, now) ==
  IF content = <<>> THEN None
  ELSE DetectReturn(content, now, RunFrom(content, ExtractedServiceInfo, "company"))

(***************************************************************************)
(* The texts of the model: up to MaxPhrases phrases joined by single       *)
(* spaces                                                                  *)
(***************************************************************************)

Phrases == <<
  <<"$", "89", " ", "dispatch", " ", "fee">>,
  <<"$", "150", " ", "dispatch", " ", "fee">>,
  <<"emergency">>,
  <<"Mon", "day", " ", "through", " ", "Fri", "day", ",", " ", "8", " ", "AM", " ", "to", " ",
    "5", " ", "PM">>,
  <<"7", " ", "day", "s", " ", "a", " ", "week">>,
  <<"week", "day", "s">>,
  <<"fix", " ", "same", "-", "day", " ", "9", " ", "out", " ", "of", " ", "ten">>,
  <<"This", " ", "is", " ", "Sarah">>,
  <<"NEVER", " ", "end", " ", "a", " ", "call", " ", "with", "out", " ", "book", "ing">>,
  <<"do", " ", "no", "t", " ", "service", " ", "gas", " ", "lines">>,
  <<"cash">>,
  <<"hello">>,
  <<"always", " ", Padding, " ", "book">> >>

MaxPhrases == 2

RECURSIVE TextOf(_)
TextOf(ps) ==
  IF ps = <<>> THEN <<>>
  ELSE IF Len(ps) = 1 THEN Phrases[ps[1]]
       ELSE Phrases[ps[1]] \o <<" ">> \o TextOf(Tail(ps))

Texts == {TextOf(ps) : ps \in UNION {[1..n -> 1..Len(Phrases)] : n \in 0..MaxPhrases}}

(***************************************************************************)
(* VariableManager.  A template, a value and an agent prompt are sequences *)
(* of characters; the reserved name active_agent_prompt is one symbol of   *)
(* the sequence, and the other letters of the model (x, y) do not occur in *)
(* it, so a placeholder never matches across the symbol.                   *)
(***************************************************************************)

active_agent_prompt == <<"active_agent_prompt">>
EXCLUDED_VARIABLES == {active_agent_prompt}

\* '{' + var_name + '}'
Placeholder(var_name) == <<"{">> \o var_name \o <<"}">>

\* re.findall(r'\{([^}]+)\}', template) from position i: the names, in order.
RECURSIVE FindAllFrom(_, _)
FindAllFrom(t, i) ==
  IF i > Len(t) THEN <<>>
  ELSE IF t[i] = "{" /\ i < Len(t) /\ t[i + 1] # "}" /\ \E j \in (i + 2)..Len(t) : t[j] = "}"
       THEN LET j == Min({k \in (i + 2)..Len(t) : t[k] = "}"})
            IN <<SubSeq(t, i + 1, j - 1)>> \o FindAllFrom(t, j + 1)
       ELSE FindAllFrom(t, i + 1)
FindAll(t) == FindAllFrom(t, 1)

\* detect_variables(template): the names found, without the excluded ones and
\* without repetition.  The list the code returns holds this set in the
\* order set iteration gives.
detect_variables(t) ==
  IF t = <<>> THEN {}
  ELSE {FindAll(t)[i] : i \in 1..Len(FindAll(t))} \ EXCLUDED_VARIABLES

\* A replacement of the first occurrence only.
RECURSIVE Replace_FirstOnly(_, _, _)
Replace_FirstOnly(str, old, new) ==
  IF Len(str) < Len(old) THEN str
  ELSE IF SubSeq(str, 1, Len(old)) = old
       THEN new \o SubSeq(str, Len(old) + 1, Len(str))
       ELSE <<Head(str)>> \o Replace_FirstOnly(Tail(str), old, new)

\* str.replace(old, new) for a non-empty old: every occurrence, left to
\* right, without overlap and without rescanning what was put in.
RECURSIVE Replace(_, _, _)
Replace(str, old, new) ==
  IF Len(str) < Len(old) THEN str
  ELSE IF SubSeq(str, 1, Len(old)) = old
       THEN new \o Replace(SubSeq(str, Len(old) + 1, Len(str)), old, new)
       ELSE <<Head(str)>> \o Replace(Tail(str), old, new)

\* The loop over variables.items() (lines 871-874), from entry i on; an
\* entry is <<var_name, var_value>>.
RECURSIVE InjectFrom(_, _, _)
InjectFrom(result, variables, i) ==
  IF i > Len(variables) THEN result
  ELSE InjectFrom(Replace(result, Placeholder(variables[i][1]), variables[i][2]),
                  variables, i + 1)

inject_variables(template, variables, agent_prompt) ==
  InjectFrom(Replace(template, Placeholder(active_agent_prompt), agent_prompt), variables, 1)

\* any(word in var_lower for word in words), the words given as lexeme
\* sequences.
ContainsAny(var_lower, words) == \E i \in 1..Len(words) : Contains(var_lower, words[i])

\* The words of determine_type (lines 847 and 849).
PhoneWords == << <<"phone">>, <<"number">>, <<"tel">>, <<"mobile">>, <<"cell">> >>
TimeWords == << <<"time">>, <<"date">>, <<"time", "stamp">>, <<"when">>, <<"date", "time">> >>

\* A determine_type that looks for the time words first.
determine_type_TimeFirst(name) ==
  IF LowerText(name) = <<"now">> THEN "time"
  ELSE IF ContainsAny(LowerText(name), TimeWords) THEN "time"
  ELSE IF ContainsAny(LowerText(name), PhoneWords) THEN "phone"
  ELSE "text"

\* determine_type(var_name): the value of the VariableType returned.
determine_type(name) ==
  IF LowerText(name) = <<"now">> THEN "time"
  ELSE IF ContainsAny(LowerText(name), PhoneWords) THEN "phone"
  ELSE IF ContainsAny(LowerText(name), TimeWords) THEN "time"
  ELSE "text"

(***************************************************************************)
\* The runs of digits a phone number is written with, and the characters
\* of the pattern [\s\-\(\)\+] (line 859).
PhoneDigits == {"555", "123", "4567", "1234"}
PhoneSeparators == WS \cup {"-", "(", ")", "+"}

\* str.isdigit(): not empty, and nothing but digits.
isdigit(t) == t # <<>> /\ \A i \in 1..Len(t) : t[i] \in Digits \cup PhoneDigits

\* re.sub(pattern, '', phone)
NotSeparator(l) == l \notin PhoneSeparators
Cleaned(phone) == SelectSeq(phone, NotSeparator)

\* A validate_phone_number that removes nothing.
validate_phone_number_AsTyped(phone) ==
  IF phone = <<>> THEN FALSE
  ELSE isdigit(phone) /\ CharLen(phone) >= 10

\* validate_phone_number(phone); an empty string and None are both falsy
\* (line 856).
validate_phone_number(phone) ==
  IF phone = <<>> THEN FALSE
  ELSE isdigit(Cleaned(phone)) /\ CharLen(Cleaned(phone)) >= 10

(* YAMLProcessor and the session of EnhancedAgentPromptProcessor           *)
(*                                                                         *)
(* A configuration pairs the text of the YAML input, as the detector sees  *)
(* it, with what yaml.safe_load does on it: it raises yaml.YAMLError, or   *)
(* it returns None or a mapping.  A mapping is a record whose fields are   *)
(* its keys; the value of 'agents' is None (a YAML null) or Some(list),    *)
(* and an entry of the list is a record whose fields are its keys.         *)
(***************************************************************************)

\* @dataclass class Agent
Agent(name, model_name, system_prompt) ==
  [name |-> name, model_name |-> model_name, system_prompt |-> system_prompt]

YAMLError == [raises |-> TRUE]
Loaded(data) == [raises |-> FALSE, data |-> data]

\* YAMLProcessor.parse: the data, or ValueError raised for yaml.YAMLError.
parse(yaml_content) == yaml_content.yaml

\* The loop of extract_agents over data['agents'], from entry i on.
RECURSIVE AgentsFrom(_, _)
AgentsFrom(entries, i) ==
  IF i > Len(entries) THEN <<>>
  ELSE IF {"name", "system_prompt"} \subseteq DOMAIN entries[i]
       THEN <<Agent(entries[i].name,
                    IF "model_name" \in DOMAIN entries[i] THEN entries[i].model_name
                    ELSE "Not specified",
                    entries[i].system_prompt)>> \o AgentsFrom(entries, i + 1)
       ELSE AgentsFrom(entries, i + 1)

\* An entry that is None (an empty item of the YAML list): the test
\* 'name' in agent_data raises TypeError (line 793).
EntryRaises(entries) == \E i \in 1..Len(entries) : entries[i] = None

\* YAMLProcessor.extract_agents: the list, or TypeError raised by the for
\* statement on a value that is no list or by the test of an entry that
\* is None.
extract_agents(data) ==
  IF data = None \/ "agents" \notin DOMAIN data THEN Returned(<<>>)
  ELSE IF data.agents = None THEN Raised(<<>>)
       ELSE IF EntryRaises(data.agents.info) THEN Raised(<<>>)
            ELSE Returned(AgentsFrom(data.agents.info, 1))

\* YAMLProcessor.extract_global_template: data.get(...) if data else None.
extract_global_template(data) ==
  IF data = None \/ "global_system_prompt_template" \notin DOMAIN data THEN None
  ELSE Some(data.global_system_prompt_template)

\* The truth value of an optional string, and `value or ""`.
TruthyStr(opt) == opt # None /\ opt.info # <<>>
OrEmpty(opt) == IF TruthyStr(opt) THEN opt.info ELSE <<>>

\* yaml_input.strip() is empty.
Blank(yaml_input) == Strip(yaml_input.text, WS) = <<>>

\* A dict is the sequence of its <<key, value>> entries in insertion order.
DictHas(d, k) == \E i \in 1..Len(d) : d[i][1] = k
DictGet(d, k) == d[CHOOSE i \in 1..Len(d) : d[i][1] = k][2]
DictSet(d, k, v) ==
  IF DictHas(d, k) THEN [i \in 1..Len(d) |-> IF d[i][1] = k THEN <<k, v>> ELSE d[i]]
  ELSE Append(d, <<k, v>>)

\* The orders a list made of a set may have.
Orders(S) == {o \in [1..Cardinality(S) -> S] : {o[i] : i \in 1..Cardinality(S)} = S}

\* list(set(...)): the elements in the order set iteration gives, which for
\* strings is fixed by the hash seed of the interpreter.  The seed picks one
\* of the orders of the set.
RECURSIVE Pick(_, _)
Pick(os, k) ==
  IF k = 1 THEN CHOOSE o \in os : TRUE
  ELSE Pick(os \ {CHOOSE o \in os : TRUE}, k - 1)
ListOfSet(seed, S) == Pick(Orders(S), ((seed - 1) % Cardinality(Orders(S))) + 1)

\* The text area before anything is typed.
EmptyInput == [text |-> <<>>, yaml |-> Loaded(None)]

\* defaults of _initialize_session_state
defaults ==
  [yaml_processed |-> FALSE,
   data |-> None,
   agents |-> <<>>,
   global_template |-> None,
   variables |-> <<>>,
   yaml_input |-> EmptyInput,
   prompts_generated |-> FALSE,
   service_info |-> None,
   generated_prompts |-> <<>>,
   variable_values |-> <<>>]

\* _process_yaml after parse returned data: what the try block leaves, with
\* the list detect_variables returns in the order vars and datetime.now()
\* at now.
Processed(ss, data, vars_list, now) ==
  IF extract_agents(data).raised THEN [ss EXCEPT !.data = data]
  ELSE [ss EXCEPT
          !.data = data,
          !.agents = extract_agents(data).info,
          !.global_template = extract_global_template(data),
          !.variables = IF TruthyStr(extract_global_template(data)) THEN vars_list ELSE @,
          !.service_info = detect(ss.yaml_input.text, now),
          !.yaml_processed = TRUE]

\* _process_yaml
_process_yaml(ss, vars_list, now) ==
  IF Blank(ss.yaml_input) THEN ss
  ELSE IF parse(ss.yaml_input).raises THEN ss
       ELSE Processed(ss, parse(ss.yaml_input).data, vars_list, now)

\* The loop of _generate_prompts over the agents, from agent i on.
RECURSIVE GenerateFrom(_, _, _, _)
GenerateFrom(ss, variable_values, generated, i) ==
  IF i > Len(ss.agents) THEN generated
  ELSE GenerateFrom(ss, variable_values,
                    DictSet(generated, ss.agents[i].name,
                            inject_variables(OrEmpty(ss.global_template), variable_values,
                                             ss.agents[i].system_prompt)),
                    i + 1)

\* A generation that stores the prompts and leaves the flag as it is.
_generate_prompts_NoFlag(ss, variable_values) ==
  [ss EXCEPT !.generated_prompts = GenerateFrom(ss, variable_values, <<>>, 1)]

\* _generate_prompts
_generate_prompts(ss, variable_values) ==
  [ss EXCEPT !.generated_prompts = GenerateFrom(ss, variable_values, <<>>, 1),
             !.prompts_generated = TRUE]

\* _initialize_session_state: the default for every key the session lacks.
_initialize_session_state(ss) ==
  [key \in DOMAIN defaults \cup DOMAIN ss |-> IF key \in DOMAIN ss THEN ss[key] ELSE defaults[key]]

\* A loop that leaves the text of the input area in the session.
Deleted_ButInput(ss) == [key \in {"yaml_input"} |-> ss[key]]
\* for key in list(st.session_state.keys()): del st.session_state[key]
Deleted(ss) == [key \in {} |-> None]

\* _clear_session_state
_clear_session_state(ss) == _initialize_session_state(Deleted(ss))

\* The Generated Prompts section of _render_results (lines 1480-1491): the
\* prompt rendered for each agent, in the order of the agents.
Shown(ss) ==
  IF ss.yaml_processed /\ ss.prompts_generated
  THEN LET with == SelectSeq(ss.agents, LAMBDA a : DictHas(ss.generated_prompts, a.name))
       IN [i \in 1..Len(with) |->
             [agent |-> with[i], prompt |-> DictGet(ss.generated_prompts, with[i].name)]]
  ELSE <<>>

(***************************************************************************)
(* State                                                                   *)
(***************************************************************************)

VARIABLES
  content,       \* detect: the text passed to detect
  pc,            \* detect: the statement detect is at
  info,          \* detect: the aggregate being filled
  ret,           \* detect: the value returned
  log,           \* detect: the level of the last record detect logged
  again,         \* detect: the value a second call on the same text returned
  pending,       \* detect: the group detectors still to run, when their order is free
  template,      \* VariableManager: the template
  agent_prompt,  \* VariableManager: the agent prompt
  unique_vars,   \* VariableManager: what detect_variables returned
  variables,     \* VariableManager: the mapping passed to inject_variables
  result,        \* VariableManager: what inject_variables returned
  vpc,           \* VariableManager: the call reached
  hash_seed,     \* VariableManager: the hash seed of the running interpreter
  unique_list,   \* VariableManager: the list detect_variables returned
  last_list,     \* VariableManager: the list the call before returned
  var_name,      \* VariableManager: the name passed to determine_type
  var_type,      \* VariableManager: what determine_type returned
  phone,         \* VariableManager: the value passed to validate_phone_number
  valid,         \* VariableManager: what validate_phone_number returned
  session_state, \* EnhancedAgentPromptProcessor: st.session_state
  clicked,       \* EnhancedAgentPromptProcessor: the button the last run handled
  data,          \* YAMLProcessor: the parsed data passed to extract_agents
  agents         \* YAMLProcessor: what extract_agents did, None before the call

dvars == <<content, pc, info, ret, log, again, pending>>
lvars == <<hash_seed, unique_list, last_list, var_name, var_type, phone, valid>>
tvars == <<template, agent_prompt, unique_vars, variables, result, vpc, lvars>>
svars == <<session_state, clicked, data, agents>>
vars == <<dvars, tvars, svars>>

\* The times datetime.now() may return.
MaxTime == 2
Times == 1..MaxTime

(***************************************************************************)
(* SpecDetect: one call of detect on a text of the model, a group          *)
(* detector at a time                                                      *)
(***************************************************************************)

\* No list made of a set yet.
IdleName == var_name = <<>> /\ var_type = "" /\ phone = <<>> /\ valid = FALSE
IdleList == hash_seed = 1 /\ unique_list = <<>> /\ last_list = <<>> /\ IdleName

\* The template engine at rest.
IdleTemplate ==
  /\ template = <<>> /\ agent_prompt = <<>> /\ unique_vars = {} /\ variables = <<>>
  /\ result = <<>> /\ vpc = "idle"
  /\ IdleList

\* The session as _initialize_session_state makes it.
IdleSession ==
  /\ session_state = _initialize_session_state(<<>>) /\ clicked = ""
  /\ data = None /\ agents = None

\* detect before a call.
IdleDetect ==
  /\ content = <<>> /\ pc = "idle" /\ info = ExtractedServiceInfo /\ ret = None /\ log = ""
  /\ again = None
  /\ pending = {}

InitDetect ==
  /\ content \in Texts
  /\ pc = "call"
  /\ info = ExtractedServiceInfo
  /\ ret = None
  /\ log = ""
  /\ again = None
  /\ pending = {}
  /\ IdleTemplate
  /\ IdleSession

\* if not content: logger.warning(...); return None
DetectEmpty ==
  /\ pc = "call" /\ content = <<>>
  /\ log' = "warning"
  /\ ret' = None
  /\ pc' = "done"
  /\ UNCHANGED <<content, info>>
  /\ UNCHANGED <<tvars, svars, again, pending>>

\* One group detector, called on the aggregate (lines 324-334); r is what it
\* leaves.
DetectStep(step, r) ==
  /\ pc = (IF step = "company" THEN "call" ELSE step)
  /\ content # <<>>
  /\ info' = r.info
  /\ pc' = AfterStep(step, r.raised)
  /\ UNCHANGED <<content, ret, log>>
  /\ UNCHANGED <<tvars, svars, again, pending>>

DetectCompanyInfo == DetectStep("company", Returned(_detect_company_info(content, info)))
DetectDispatchFees == DetectStep("fees", Returned(_detect_dispatch_fees(content, info)))
DetectScheduling == DetectStep("scheduling", Returned(_detect_scheduling(content, info)))
DetectMembershipBenefits == DetectStep("membership", _detect_membership_benefits(content, info))
DetectMetrics == DetectStep("metrics", _detect_metrics(content, info))
DetectPaymentInfo == DetectStep("payment", Returned(_detect_payment_info(content, info)))
DetectServiceCategories ==
  DetectStep("categories", Returned(_detect_service_categories(content, info)))
DetectSchedulingRules == DetectStep("rules", Returned(_detect_scheduling_rules(content, info)))

\* The end of the try block (lines 337-349).
DetectFinish ==
  /\ pc = "finish"
  /\ \E now \in Times :
       /\ info' = [info EXCEPT !.raw_data = RawData(content, now)]
       /\ ret' = IF _has_detected_info(info') THEN Some(info') ELSE None
       /\ log' = IF _has_detected_info(info') THEN "info" ELSE "debug"
  /\ pc' = "done"
  /\ UNCHANGED content
  /\ UNCHANGED <<tvars, svars, again, pending>>

\* The except clause (lines 351-353); the detectors raise IndexError.
DetectExcept ==
  /\ pc = "except"
  /\ IF Catches("IndexError")
     THEN ret' = OnException(info) /\ log' = "error" /\ pc' = "done"
     ELSE ret' = ret /\ log' = log /\ pc' = "propagated"
  /\ UNCHANGED <<content, info>>
  /\ UNCHANGED <<tvars, svars, again, pending>>

NextDetect ==
  \/ DetectEmpty
  \/ DetectCompanyInfo
  \/ DetectDispatchFees
  \/ DetectScheduling
  \/ DetectMembershipBenefits
  \/ DetectMetrics
  \/ DetectPaymentInfo
  \/ DetectServiceCategories
  \/ DetectSchedulingRules
  \/ DetectFinish
  \/ DetectExcept

SpecDetect == InitDetect /\ [][NextDetect]_vars

(***************************************************************************)
(* SpecFees: _detect_dispatch_fees called on a fee with words around it    *)
(***************************************************************************)

\* The words the context is searched for; NearPad and FarPad stand between
\* a word and the fee.
ContextWords == {"repair", "Repair", "cleaning", "maintenance", "hello"}
Pads == {NearPad, FarPad}

\* What stands before the fee and after it.
BeforeFee == {<<>>} \cup {<<w>> : w \in ContextWords} \cup {<<w, p>> : w \in ContextWords, p \in Pads}
AfterFee == {<<>>} \cup {<<w>> : w \in ContextWords} \cup {<<p, w>> : w \in ContextWords, p \in Pads}
FeeTexts == {b \o Phrases[1] \o a : b \in BeforeFee, a \in AfterFee}

InitFees ==
  /\ content \in FeeTexts
  /\ pc = "fees"
  /\ info = ExtractedServiceInfo
  /\ ret = None
  /\ log = ""
  /\ again = None
  /\ pending = {}
  /\ IdleTemplate
  /\ IdleSession

\* self._detect_dispatch_fees(content, info)
CallDetectDispatchFees ==
  /\ pc = "fees"
  /\ info' = _detect_dispatch_fees(content, info)
  /\ pc' = "fees found"
  /\ UNCHANGED <<content, ret, log, again, pending, tvars, svars>>

NextFees == CallDetectDispatchFees

SpecFees == InitFees /\ [][NextFees]_vars

(***************************************************************************)
(* SpecHours: _detect_scheduling called on a range of hours                *)
(***************************************************************************)

\* The hours of a 12-hour clock, and a range of hours written with minutes
\* ("8:00 AM to 5:00 PM") or without ("8 AM to 5 PM").
ClockHours == {"1", "2", "3", "4", "5", "6", "7", "8", "9", "10", "11", "12"}
Meridiems == {"AM", "PM"}
HourRange(minutes, h1, m1, h2, m2) ==
  IF minutes THEN <<h1, ":", "00", " ", m1, " ", "to", " ", h2, ":", "00", " ", m2>>
  ELSE <<h1, " ", m1, " ", "to", " ", h2, " ", m2>>
HourRanges ==
  {HourRange(minutes, h1, m1, h2, m2) :
     minutes \in BOOLEAN, h1 \in ClockHours, m1 \in Meridiems, h2 \in ClockHours,
     m2 \in Meridiems}

InitHours ==
  /\ content \in HourRanges
  /\ pc = "hours"
  /\ info = ExtractedServiceInfo
  /\ ret = None
  /\ log = ""
  /\ again = None
  /\ pending = {}
  /\ IdleTemplate
  /\ IdleSession

\* self._detect_scheduling(content, info)
CallDetectScheduling ==
  /\ pc = "hours"
  /\ info' = _detect_scheduling(content, info)
  /\ pc' = "scheduled"
  /\ UNCHANGED <<content, ret, log, again, pending, tvars, svars>>

NextHours == CallDetectScheduling

SpecHours == InitHours /\ [][NextHours]_vars

(***************************************************************************)
(* SpecCascade: detect called on texts in which two patterns of one group  *)
(* match and would store different values                                  *)
(***************************************************************************)

CascadeTexts == {
  <<>>,
  \* company name: pattern 1 ("from zed") and pattern 3 ("welcome to ...")
  <<"welcome", " ", "to", " ", "bolt", " ", "from", " ", "zed">>,
  \* assistant: pattern 1 ("this is sarah") and pattern 2 ("mia here")
  <<"mia", " ", "here", ".", " ", "this", " ", "is", " ", "sarah">>,
  \* greeting: pattern 1 (the agent_greeting line) and pattern 2
  <<"agent_greeting", ":", " ", "thank", " ", "you", " ", "for", " ", "call", "ing", " ", "bolt">>,
  \* operating days: pattern 4 ("7 days a week") and pattern 5 ("weekdays")
  <<"week", "day", "s", ",", " ", "7", " ", "day", "s", " ", "a", " ", "week">>,
  \* hours: pattern 1 (8:00 AM, 5:00 PM) and pattern 2 (00, 00)
  HourRange(TRUE, "8", "AM", "5", "PM"),
  \* emergency fee: pattern 1 ($89) and pattern 2 ($150)
  <<"$", "150", " ", "emergency", " ", "$", "89">>,
  \* estimate fee: pattern 1 ($89) and pattern 2 (FREE)
  <<"free", " ", "estimate", " ", "$", "89">>,
  \* member fee: patterns 1 and 2
  <<"free", " ", "for", " ", "member", " ", "free">>,
  \* multiple issues fee: pattern 1 ($89) and pattern 2 ($150)
  <<"$", "150", " ", "cover", "s", " ", "everything", " ", "in", " ", "one", " ", "visit", " ",
    "multiple", " ", "issues", " ", "$", "89">>,
  \* program name: pattern 1 ("membership") and pattern 2 ("bolt")
  <<"member", "ship", " ", "program", " ", "called", " ", "bolt">>,
  \* discount: pattern 1 (10) and pattern 2 (5)
  <<"10", "%", " ", "off", " ", "repair", " ", "5", "%", " ", "off">>,
  \* warranty: patterns 1 and 2
  <<"lifetime", " ", "warranty", " ", "lifetime">>,
  \* experience: pattern 1 (5) and pattern 2 (10)
  <<"5", " ", "year", "s", " ", "experience", " ", "over", " ", "10", " ", "year", "s">>,
  \* reviews: pattern 1 (89) and pattern 2 (150)
  <<"over", " ", "150", " ", "customer", " ", "review", "s", " ", "89", " ", "review", "s">>,
  \* resolution rate: pattern 1 (9 out of 10) and pattern 2 (89%)
  <<"89", "%", " ", "resolution", " ", "9", " ", "out", " ", "of", " ", "10">>,
  \* notification: pattern 1 (10-12) and pattern 2 (10)
  <<"call", " ", "10", "-", "12", " ", "minute", "s", " ", "before">>,
  \* service area: pattern 1 ("denver and nearby areas") and pattern 2
  <<"serving", " ", "denver", " ", "and", " ", "nearby", " ", "area", "s">>,
  \* resolution rate pattern 3, which has no second group
  Phrases[7] }

InitCascade ==
  /\ content \in CascadeTexts
  /\ pc = "call"
  /\ info = ExtractedServiceInfo
  /\ ret = None
  /\ log = ""
  /\ again = None
  /\ pending = {}
  /\ IdleTemplate
  /\ IdleSession

SpecCascade == InitCascade /\ [][NextDetect]_vars

(***************************************************************************)
(* SpecOrder: one call of detect whose eight group detectors run in any    *)
(* order                                                                   *)
(***************************************************************************)

\* The group detectors detect calls (lines 326-333).
Detectors ==
  {"company", "fees", "scheduling", "membership", "metrics", "payment", "categories", "rules"}

\* The phrases of the model, each alone, and the texts of the cascades.
OrderTexts == {Phrases[i] : i \in 1..Len(Phrases)} \cup CascadeTexts

InitOrder ==
  /\ content \in OrderTexts
  /\ pc = "call"
  /\ info = ExtractedServiceInfo
  /\ ret = None
  /\ log = ""
  /\ again = None
  /\ pending = Detectors
  /\ IdleTemplate
  /\ IdleSession

\* detect leaves the try block on the first exception, and goes on to
\* raw_data when no detector is left.
AfterDetector(left, raised) ==
  IF raised THEN "except" ELSE IF left = {} THEN "finish" ELSE "call"

\* One of the detectors still to run, called on the aggregate; r is what it
\* leaves.
RunDetector(step, r) ==
  /\ pc = "call"
  /\ content # <<>>
  /\ step \in pending
  /\ info' = r.info
  /\ pending' = pending \ {step}
  /\ pc' = AfterDetector(pending', r.raised)
  /\ UNCHANGED <<content, ret, log, again, tvars, svars>>

DetectInAnyOrder == \E step \in Detectors : RunDetector(step, RunStep(step, content, info))

NextOrder ==
  \/ DetectEmpty
  \/ DetectInAnyOrder
  \/ DetectFinish
  \/ DetectExcept

SpecOrder == InitOrder /\ [][NextOrder]_vars

(***************************************************************************)
(* SpecTwice: detect called twice on the same text, each call one step     *)
(***************************************************************************)

\* The values detect may return on a text whose group detectors leave r,
\* one for each of the times datetime.now() may give.
ReturnsAt(text, r, times) == {DetectReturn(text, now, r) : now \in times}

\* The values detect(text) may return when the clock reads one of the times.
Returns(text, times) ==
  IF text = <<>> THEN {None}
  ELSE ReturnsAt(text, RunFrom(text, ExtractedServiceInfo, "company"), times)

InitTwice ==
  /\ content \in Texts
  /\ pc = "first"
  /\ info = ExtractedServiceInfo
  /\ ret = None
  /\ log = ""
  /\ again = None
  /\ pending = {}
  /\ IdleTemplate
  /\ IdleSession

\* detect(content), the clock reading the first of the times
FirstCall ==
  /\ pc = "first"
  /\ ret' \in Returns(content, {1})
  /\ pc' = "second"
  /\ UNCHANGED <<content, info, log, again, pending, tvars, svars>>

\* detect(content), once more, the clock reading the same time or a later one
SecondCall ==
  /\ pc = "second"
  /\ again' \in Returns(content, Times)
  /\ pc' = "twice"
  /\ UNCHANGED <<content, info, ret, log, pending, tvars, svars>>

NextTwice ==
  \/ FirstCall
  \/ SecondCall

SpecTwice == InitTwice /\ [][NextTwice]_vars

(***************************************************************************)
(* SpecTemplate: detect_variables on a template, a mapping supplied, and   *)
(* inject_variables                                                        *)
(***************************************************************************)

\* The templates: up to MaxTemplate characters.
MaxTemplate == 6
TemplateChars == {"{", "}", "x", "active_agent_prompt"}
Templates == UNION {[1..n -> TemplateChars] : n \in 0..MaxTemplate}

\* The agent prompts, the variable names a caller may add, and the values.
AgentPrompts == {<<"y">>, <<"{", "x", "}">>}
Names == {<<"x">>, <<"y">>}
Values == {<<"y">>, <<"{", "y", "}">>}

\* The mappings with the keys N: a dict keeps its entries in insertion order.
Mappings(N) ==
  {m \in [1..Cardinality(N) -> N \X Values] : {m[i][1] : i \in 1..Cardinality(N)} = N}

InitTemplate ==
  /\ template \in Templates
  /\ agent_prompt \in AgentPrompts
  /\ unique_vars = {}
  /\ variables = <<>>
  /\ result = <<>>
  /\ vpc = "template"
  /\ IdleList
  /\ IdleDetect
  /\ IdleSession

DetectVariables ==
  /\ vpc = "template"
  /\ unique_vars' = detect_variables(template)
  /\ vpc' = "detected"
  /\ UNCHANGED <<template, agent_prompt, variables, result, dvars, svars, lvars>>

\* A value is supplied for exactly the variables detected, in the order the
\* list of detect_variables holds them.
SupplyDetected ==
  /\ vpc = "detected"
  /\ \E m \in Mappings(unique_vars) : variables' = m
  /\ vpc' = "supplied"
  /\ UNCHANGED <<template, agent_prompt, unique_vars, result, dvars, svars, lvars>>

\* A caller passes a mapping of its own.
SupplyOther ==
  /\ vpc = "detected"
  /\ \E N \in SUBSET Names : \E m \in Mappings(N) : variables' = m
  /\ vpc' = "supplied"
  /\ UNCHANGED <<template, agent_prompt, unique_vars, result, dvars, svars, lvars>>

InjectVariables ==
  /\ vpc = "supplied"
  /\ result' = inject_variables(template, variables, agent_prompt)
  /\ vpc' = "injected"
  /\ UNCHANGED <<template, agent_prompt, unique_vars, variables, dvars, svars, lvars>>

NextTemplate ==
  \/ DetectVariables
  \/ SupplyDetected
  \/ SupplyOther
  \/ InjectVariables

SpecTemplate == InitTemplate /\ [][NextTemplate]_vars

(***************************************************************************)
(* SpecVariables: detect_variables called on a template, and called again  *)
(* in the same run of the program or in another one                        *)
(***************************************************************************)

\* The hash seeds an interpreter may start with.
MaxSeed == 2
Seeds == 1..MaxSeed

\* The templates: up to MaxTemplate characters, two letters among them.
VariableChars == {"{", "}", "x", "y", "active_agent_prompt"}
VariableTemplates == UNION {[1..n -> VariableChars] : n \in 0..MaxTemplate}

InitVariables ==
  /\ template \in VariableTemplates
  /\ hash_seed \in Seeds
  /\ unique_list = <<>>
  /\ last_list = <<>>
  /\ IdleName
  /\ agent_prompt = <<>> /\ unique_vars = {} /\ variables = <<>> /\ result = <<>>
  /\ vpc = "template"
  /\ IdleDetect
  /\ IdleSession

\* detect_variables(template), a first and a second time.
CallDetectVariables ==
  /\ vpc \in {"template", "listed"}
  /\ last_list' = unique_list
  /\ unique_list' = ListOfSet(hash_seed, detect_variables(template))
  /\ vpc' = IF vpc = "template" THEN "listed" ELSE "relisted"
  /\ UNCHANGED <<template, agent_prompt, unique_vars, variables, result, hash_seed, dvars, svars>>
  /\ UNCHANGED <<var_name, var_type, phone, valid>>

\* The program is run anew: the interpreter starts with a hash seed of its
\* own.
Restart ==
  /\ vpc = "listed"
  /\ hash_seed' \in Seeds
  /\ UNCHANGED <<template, agent_prompt, unique_vars, variables, result, vpc, unique_list,
                 last_list, dvars, svars>>
  /\ UNCHANGED <<var_name, var_type, phone, valid>>

NextVariables ==
  \/ CallDetectVariables
  \/ Restart

SpecVariables == InitVariables /\ [][NextVariables]_vars

(***************************************************************************)
(* SpecAgents: extract_agents called on parsed data                        *)
(***************************************************************************)

\* The entries of an agents list: mappings with and without the keys, and
\* None for an empty item of the list.
Sales == [name |-> "sales", system_prompt |-> <<"y">>]
SalesAgain == [name |-> "sales", model_name |-> "m", system_prompt |-> <<"{", "x", "}">>]
Support == [name |-> "support", model_name |-> "m", system_prompt |-> <<"{", "x", "}">>]
Unnamed == [system_prompt |-> <<"y">>]
NoPrompt == [name |-> "support", model_name |-> "m"]
ModelOnly == [model_name |-> "m"]
Entries == {Sales, SalesAgain, Support, Unnamed, NoPrompt, ModelOnly, None}

\* What yaml.safe_load may give: None for an empty document, a mapping
\* without agents, agents: with nothing after it, and lists of up to
\* MaxAgents entries.
MaxAgents == 3
ParsedData ==
  {None, <<>>, [global_system_prompt_template |-> <<"y">>], [agents |-> None]}
    \cup {[agents |-> Some(entries)] : entries \in UNION {[1..n -> Entries] : n \in 0..MaxAgents}}

InitAgents ==
  /\ data \in ParsedData
  /\ agents = None
  /\ session_state = defaults /\ clicked = ""
  /\ IdleDetect
  /\ IdleTemplate

ExtractAgents ==
  /\ agents = None
  /\ agents' = extract_agents(data)
  /\ UNCHANGED <<data, session_state, clicked, dvars, tvars>>

NextAgents == ExtractAgents

SpecAgents == InitAgents /\ [][NextAgents]_vars

(***************************************************************************)
(* SpecType: determine_type called on a name                               *)
(***************************************************************************)

\* The names: up to MaxNameParts pieces, the words of determine_type and
\* other letters among them.
MaxNameParts == 2
NameParts == {"phone", "Phone", "number", "tel", "mobile", "cell", "time", "Time", "date",
              "stamp", "when", "now", "NOW", "x", "_"}
VariableNames == UNION {[1..n -> NameParts] : n \in 1..MaxNameParts}

InitType ==
  /\ var_name \in VariableNames
  /\ var_type = ""
  /\ phone = <<>> /\ valid = FALSE
  /\ hash_seed = 1 /\ unique_list = <<>> /\ last_list = <<>>
  /\ template = <<>> /\ agent_prompt = <<>> /\ unique_vars = {} /\ variables = <<>>
  /\ result = <<>>
  /\ vpc = "name"
  /\ IdleDetect
  /\ IdleSession

DetermineType ==
  /\ vpc = "name"
  /\ var_type' = determine_type(var_name)
  /\ vpc' = "typed"
  /\ UNCHANGED <<template, agent_prompt, unique_vars, variables, result, dvars, svars>>
  /\ UNCHANGED <<hash_seed, unique_list, last_list, var_name, phone, valid>>

NextType == DetermineType

SpecType == InitType /\ [][NextType]_vars

(***************************************************************************)
(***************************************************************************)
(* SpecPhone: validate_phone_number called on a value                      *)
(***************************************************************************)

\* The values: up to MaxPhoneParts pieces, runs of digits, the characters
\* the pattern removes, and others.
MaxPhoneParts == 5
PhoneParts == PhoneDigits \cup {"-", " ", "(", ")", "+", ".", "x"}

InitPhone ==
  /\ \E n \in 0..MaxPhoneParts : phone \in [1..n -> PhoneParts]
  /\ valid = FALSE
  /\ var_name = <<>> /\ var_type = ""
  /\ hash_seed = 1 /\ unique_list = <<>> /\ last_list = <<>>
  /\ template = <<>> /\ agent_prompt = <<>> /\ unique_vars = {} /\ variables = <<>>
  /\ result = <<>>
  /\ vpc = "phone"
  /\ IdleDetect
  /\ IdleSession

ValidatePhoneNumber ==
  /\ vpc = "phone"
  /\ valid' = validate_phone_number(phone)
  /\ vpc' = "validated"
  /\ UNCHANGED <<template, agent_prompt, unique_vars, variables, result, dvars, svars>>
  /\ UNCHANGED <<hash_seed, unique_list, last_list, var_name, var_type, phone>>

NextPhone == ValidatePhoneNumber

SpecPhone == InitPhone /\ [][NextPhone]_vars

(* Spec: a session of EnhancedAgentPromptProcessor.  A step is one run of  *)
(* the script: the text area is read, and the button clicked, if any, is   *)
(* handled.                                                                *)
(***************************************************************************)

\* The texts of the configurations: one with service information and one
\* without.
WithFee == Phrases[1]
Plain == Phrases[12]

\* What the user may have in the text area.
Configurations ==
  { EmptyInput,
    [text |-> <<" ">>, yaml |-> Loaded(None)],
    [text |-> Plain, yaml |-> YAMLError],
    [text |-> Plain, yaml |-> Loaded(None)],
    [text |-> Plain, yaml |-> Loaded([agents |-> None])],
    [text |-> WithFee,
     yaml |-> Loaded([agents |-> Some(<<Sales>>),
                      global_system_prompt_template |-> Placeholder(active_agent_prompt)])],
    [text |-> Plain,
     yaml |-> Loaded([agents |-> Some(<<Sales, Support>>),
                      global_system_prompt_template |->
                        Placeholder(<<"x">>) \o Placeholder(active_agent_prompt)])],
    [text |-> Plain,
     yaml |-> Loaded([agents |-> Some(<<Sales, SalesAgain>>),
                      global_system_prompt_template |-> Placeholder(active_agent_prompt)])],
    [text |-> Plain,
     yaml |-> Loaded([agents |-> Some(<<Unnamed, Support>>)])],
    [text |-> Plain,
     yaml |-> Loaded([global_system_prompt_template |->
                        Placeholder(<<"x">>) \o Placeholder(<<"y">>)])] }

\* The values the variable inputs give for the variables of the session,
\* in the order of the list: variable_values of _render_results when
\* all_valid.
ValidValues(ss) ==
  {m \in [1..Len(ss.variables) -> Names \X Values] :
     \A i \in 1..Len(ss.variables) : m[i][1] = ss.variables[i]}

\* What detect_variables finds for a configuration (lines 1377-1380).
VariablesIn(yaml_input) ==
  IF parse(yaml_input).raises THEN {}
  ELSE detect_variables(OrEmpty(extract_global_template(parse(yaml_input).data)))

Init ==
  /\ IdleSession
  /\ IdleDetect
  /\ IdleTemplate

\* A run in which the text area holds a new text and no button is clicked.
EditYaml ==
  /\ \E yaml_input \in Configurations :
       session_state' = [session_state EXCEPT !.yaml_input = yaml_input]
  /\ clicked' = ""
  /\ UNCHANGED <<dvars, tvars, data, agents>>

\* Process Configuration is clicked: _process_yaml on the text the area
\* holds.
ProcessConfiguration ==
  /\ \E now \in Times :
       \E vars_list \in Orders(VariablesIn(session_state.yaml_input)) :
         session_state' = _process_yaml(session_state, vars_list, now)
  /\ clicked' = "Process Configuration"
  /\ UNCHANGED <<dvars, tvars, data, agents>>

\* Generate Prompts is clicked: the button is there when the results are
\* rendered, and enabled when every variable has a valid value.  The step
\* is _generate_prompts as _render_results calls it; what Streamlit does
\* with the widget keys of the page, made of the agent names, is the
\* library's.
GeneratePrompts ==
  /\ session_state.yaml_processed
  /\ \E variable_values \in ValidValues(session_state) :
       session_state' = _generate_prompts(session_state, variable_values)
  /\ clicked' = "Generate Prompts"
  /\ UNCHANGED <<dvars, tvars, data, agents>>

\* Clear All is clicked.
ClearAll ==
  /\ session_state' = _clear_session_state(session_state)
  /\ clicked' = "Clear All"
  /\ UNCHANGED <<dvars, tvars, data, agents>>

Next ==
  \/ EditYaml
  \/ ProcessConfiguration
  \/ GeneratePrompts
  \/ ClearAll

Spec == Init /\ [][Next]_vars

(***************************************************************************)
(* Properties of detect, checked under SpecDetect                          *)
(***************************************************************************)

\* Some field or sequence the group detectors fill is non-empty.
AnyField(i) ==
  \/ i.company_info # CompanyInfo
  \/ i.dispatch_fees # <<>>
  \/ i.scheduling # SchedulingInfo
  \/ i.membership # MembershipBenefits
  \/ i.metrics # OperationalMetrics
  \/ i.payment # PaymentInfo
  \/ i.service_categories # <<>>
  \/ i.scheduling_rules # <<>>

\* detect has returned from a call in which no group detector raised.
ReturnedClean == pc = "done" /\ content # <<>> /\ log # "error"

\* Some group detector raises on the content.
GroupRaises ==
  \/ _detect_membership_benefits(content, ExtractedServiceInfo).raised
  \/ _detect_metrics(content, ExtractedServiceInfo).raised

\* C1: for a non-empty text (in a call where no detector raised), detect
\* returns a populated record if and only if at least one field or sequence
\* of the aggregate is non-empty.
C1_PopulatedIffAnyField == ReturnedClean => (~ret.none <=> AnyField(info))

\* C2 as stated: when a group detector raises, the other groups are still
\* evaluated and detect reports the values they detect.
C2_GroupsIsolated ==
  (pc = "done" /\ GroupRaises) =>
     /\ ~ret.none
     /\ ret.info.dispatch_fees = _detect_dispatch_fees(content, ExtractedServiceInfo).dispatch_fees
     /\ ret.info.payment = _detect_payment_info(content, ExtractedServiceInfo).payment
     /\ ret.info.service_categories = Categories(content, 1)
     /\ ret.info.scheduling_rules =
          _detect_scheduling_rules(content, ExtractedServiceInfo).scheduling_rules

\* C2, amended: when a group detector raises, detect reports no group's
\* values: the call returns 'no result' and logs an error, and the groups
\* after the failing one (payment, categories, rules) are never evaluated.
C2_RaiseDropsEveryGroup ==
  (pc = "done" /\ GroupRaises) =>
     /\ ret = None
     /\ log = "error"
     /\ info.payment = PaymentInfo
     /\ info.service_categories = <<>>
     /\ info.scheduling_rules = <<>>

\* A call that raised after a fee was detected and before the categories
\* the text would yield were looked for.
C2_RaisedBetweenGroups ==
  /\ pc = "done" /\ GroupRaises
  /\ info.dispatch_fees # <<>>
  /\ Categories(content, 1) # <<>>

\* C3: detect never raises to its caller; empty input yields 'no result'
\* with a warning, not an error; when a group detector raised, the call
\* returns 'no result', never the partially filled record.
C3_NeverRaises ==
  /\ pc # "propagated"
  /\ pc = "done" =>
       /\ content = <<>> => (ret = None /\ log = "warning")
       /\ log = "error" => ret.none

\* A call that ended in the except clause with a partially filled aggregate.
C3_PartialDiscarded == pc = "done" /\ log = "error" /\ AnyField(info) /\ ret.none

\* The example of C7.
WeekdayHours == Phrases[4]

\* C7: for text containing "Monday through Friday, 8 AM to 5 PM" (in a call
\* where no detector raised), detect yields total_hours "8 AM - 5 PM" and
\* the afternoon slots ending at 5:00 PM.
C7_WholeHourExample ==
  (ReturnedClean /\ Contains(content, WeekdayHours)) =>
     /\ ~ret.none
     /\ ret.info.scheduling.total_hours = "8 AM - 5 PM"
     /\ ret.info.scheduling.afternoon_slots = "12:00 PM - 5:00 PM"

SevenDays == <<"7", " ", "day", "s", " ", "a", " ", "week">>

\* C8 as stated: every text containing "7 days a week" (in a call where no
\* detector raised) yields all seven weekday names, Monday first.
C8_SevenDaysAlways ==
  (ReturnedClean /\ Contains(content, SevenDays)) =>
     (~ret.none /\ ret.info.scheduling.operating_days = Mon_Sun)

\* The first days pattern, in library order, that matches the content (0: none).
FirstDaysPattern ==
  LET hits == {i \in 1..Len(SCHEDULING_PATTERNS.days) :
                 Search(content, SCHEDULING_PATTERNS.days[i]).ok}
  IN IF hits = {} THEN 0 ELSE CHOOSE i \in hits : \A j \in hits : i <= j

\* C8, amended: in every record detect returns, operating_days is decided by
\* the first days pattern, in library order, that matches: all seven weekday
\* names, Monday first, when the text it matched contains "7 days", Monday to
\* Friday otherwise, and no days when no days pattern matches.
C8_FirstDaysPatternDecides ==
  (pc = "done" /\ ~ret.none) =>
     ret.info.scheduling.operating_days =
       IF FirstDaysPattern = 0 THEN <<>>
       ELSE IF Contains(LowerText(Group0(content,
                  Search(content, SCHEDULING_PATTERNS.days[FirstDaysPattern]))),
                  <<"7", " ", "day", "s">>)
            THEN Mon_Sun
            ELSE Mon_Fri

\* A record for a text that contains "7 days a week" after a day range.
C8_RangeBeforeSevenDays ==
  /\ pc = "done" /\ ~ret.none
  /\ Contains(content, SevenDays)
  /\ ret.info.scheduling.operating_days = Mon_Fri

\* The amounts a standard fee pattern matches in the content.
StandardAmounts(i) ==
  LET ms == FindIter(content, FEE_PATTERNS.standard[i])
  IN {"$" \o GroupStr(content, ms[k], 1) : k \in 1..Len(ms)}

\* The amount the match of a first-match cascade (emergency, estimate,
\* multiple) carries.
CascadeAmounts(c) ==
  LET n == FirstMatch(content, FEE_PATTERNS[c])
  IN IF n.i # 0 /\ GroupSet(n.m, 1) THEN {"$" \o GroupStr(content, n.m, 1)} ELSE {}

\* The patterns and cascades that match the amount.
StandardWith(amount) == {i \in 1..Len(FEE_PATTERNS.standard) : amount \in StandardAmounts(i)}
CascadesWith(amount) == {c \in {"emergency", "estimate", "multiple"} : amount \in CascadeAmounts(c)}

\* The amounts matched in the content.
MatchedAmounts ==
  UNION {StandardAmounts(i) : i \in 1..Len(FEE_PATTERNS.standard)}
    \cup UNION {CascadeAmounts(c) : c \in {"emergency", "estimate", "multiple"}}

StandardTypes ==
  {"Standard Service Call", "Service Call (Repairs)", "Service Call (Cleaning/Maintenance)"}

\* The positions of the returned fees with the amount.
FeesWith(amount) ==
  {k \in 1..Len(ret.info.dispatch_fees) : ret.info.dispatch_fees[k].amount = amount}

\* C9 as stated: an amount matched as a fee through two different patterns
\* appears in exactly one returned DispatchFee.
C9_OneFeePerAmount ==
  (pc = "done" /\ ~ret.none) =>
     \A amount \in MatchedAmounts :
        Cardinality(StandardWith(amount)) + Cardinality(CascadesWith(amount)) >= 2
          => Cardinality(FeesWith(amount)) = 1

\* C9, amended: in every record detect returns, an amount matched through
\* two different standard fee patterns appears in exactly one DispatchFee of
\* a standard service type.
C9_OneStandardFeePerAmount ==
  (pc = "done" /\ ~ret.none) =>
     \A amount \in MatchedAmounts :
        Cardinality(StandardWith(amount)) >= 2
          => Cardinality({k \in FeesWith(amount) :
                            ret.info.dispatch_fees[k].service_type \in StandardTypes}) = 1

\* A record for a text in which two standard fee patterns match $150.
C9_TwoPatternsOneAmount ==
  /\ pc = "done" /\ ~ret.none
  /\ Cardinality(StandardWith("$150")) >= 2
  /\ Cardinality(FeesWith("$150")) = 1

\* C10: for every text containing "$N dispatch fee", detect returns a record
\* whose dispatch_fees contains a DispatchFee with amount "$N".
C10_DispatchFeeDetected ==
  pc = "done" =>
     \A d \in Digits :
        Contains(content, <<"$", d, " ", "dispatch", " ", "fee">>)
          => (~ret.none /\ FeesWith("$" \o d) # {})

(***************************************************************************)
(* Properties of the template engine, checked under SpecTemplate           *)
(***************************************************************************)

\* The keys of the mapping passed to inject_variables.
Keys == {variables[i][1] : i \in 1..Len(variables)}

\* C4: a supplied value that contains {other_var}, other_var a key of the
\* mapping, appears verbatim in the output of inject_variables wherever the
\* template holds the placeholder of its variable.
C4_ValuesVerbatim ==
  vpc = "injected" =>
     \A i \in 1..Len(variables) :
        (/\ Contains(template, Placeholder(variables[i][1]))
         /\ \E other_var \in Keys : Contains(variables[i][2], Placeholder(other_var)))
          => Contains(result, variables[i][2])

\* re.findall(r'\{([^}]+)\}', str) finds a placeholder.
Unresolved(str) == FindAll(str) # <<>>

HasBrace(str) == \E i \in 1..Len(str) : str[i] \in {"{", "}"}

\* inject_variables has run on values for exactly the detected variables.
RoundTrip == vpc = "injected" /\ Keys = unique_vars

\* C5 as stated: the round trip leaves no unresolved placeholder unless a
\* supplied value contains a brace.
C5_RoundTripResolves ==
  (RoundTrip /\ \A i \in 1..Len(variables) : ~HasBrace(variables[i][2]))
    => ~Unresolved(result)

\* C5, amended: the round trip leaves no unresolved placeholder when no
\* supplied value and not the agent prompt contains a brace and no
\* placeholder name of the template contains an opening brace.
C5_RoundTripWithoutBraces ==
  (/\ RoundTrip
   /\ \A i \in 1..Len(variables) : ~HasBrace(variables[i][2])
   /\ ~HasBrace(agent_prompt)
   /\ \A i \in 1..Len(FindAll(template)) : ~HasBrace(FindAll(template)[i]))
    => ~Unresolved(result)

\* A round trip on a template with a variable and brace-free values.
C5_VariableResolved ==
  /\ RoundTrip
  /\ unique_vars # {}
  /\ \A i \in 1..Len(variables) : ~HasBrace(variables[i][2])
  /\ ~HasBrace(agent_prompt)
  /\ \A i \in 1..Len(FindAll(template)) : ~HasBrace(FindAll(template)[i])
  /\ ~Unresolved(result)

(***************************************************************************)
(* Properties of the session, checked under Spec                           *)
(***************************************************************************)

\* What generation with the values vv owes the i-th agent of the session:
\* the agent with the template filled with its own system_prompt.
Owed(ss, vv, i) ==
  [agent |-> ss.agents[i],
   prompt |-> inject_variables(OrEmpty(ss.global_template), vv, ss.agents[i].system_prompt)]

\* After _generate_prompts with the values vv there is one stored prompt
\* per agent, and each agent is shown the prompt owed to it.
OnePromptPerAgent(ss, vv) ==
  /\ Len(ss.generated_prompts) = Len(ss.agents)
  /\ Len(Shown(ss)) = Len(ss.agents)
  /\ \A i \in 1..Len(ss.agents) : Shown(ss)[i] = Owed(ss, vv, i)

\* C6: every Generate Prompts step leaves one stored prompt per agent, and
\* the prompt shown for each agent is the template filled with that agent's
\* own system_prompt, for every list of agents, agents that share a name
\* included.
C6_OnePromptPerAgent ==
  [][GeneratePrompts =>
       \E vv \in ValidValues(session_state) : OnePromptPerAgent(session_state', vv)]_vars

(***************************************************************************)
(* Further properties of detect, checked under SpecDetect                  *)
(***************************************************************************)

\* Some pattern of a list matches the content.
RECURSIVE AnyMatches(_, _, _)
AnyMatches(text, patterns, i) ==
  /\ i <= Len(patterns)
  /\ (Search(text, patterns[i]).ok \/ AnyMatches(text, patterns, i + 1))

\* The patterns the group detectors apply, group by group.
GroupPatterns ==
  COMPANY_PATTERNS.name \o COMPANY_PATTERNS.assistant \o COMPANY_PATTERNS.greeting
  \o FEE_PATTERNS.standard \o FEE_PATTERNS.emergency \o FEE_PATTERNS.estimate
  \o FEE_PATTERNS.member \o FEE_PATTERNS.multiple
  \o SCHEDULING_PATTERNS.days \o SCHEDULING_PATTERNS.hours
  \o MEMBERSHIP_PATTERNS.program_name \o MEMBERSHIP_PATTERNS.discount
  \o MEMBERSHIP_PATTERNS.warranty \o MEMBERSHIP_PATTERNS.benefits
  \o METRICS_PATTERNS.experience \o METRICS_PATTERNS.reviews
  \o METRICS_PATTERNS.resolution_rate \o METRICS_PATTERNS.notification
  \o METRICS_PATTERNS.service_area
  \o [i \in 1..Len(PAYMENT_PATTERNS) |-> PAYMENT_PATTERNS[i][2]]
  \o [i \in 1..Len(SERVICE_PATTERNS) |-> SERVICE_PATTERNS[i][2]]
  \o RULE_PATTERNS[1][2] \o RULE_PATTERNS[2][2] \o RULE_PATTERNS[3][2]

\* No pattern of any field group matches the content.
NoPatternMatches == ~AnyMatches(content, GroupPatterns, 1)

\* C11: for every non-empty text in which no pattern of any field group
\* matches, detect returns 'no result'.
C11_NoMatchNoResult ==
  (pc = "done" /\ content # <<>> /\ NoPatternMatches) => ret = None

\* detect has returned on a non-empty text that no pattern matches.
C11_NothingMatched ==
  pc = "done" /\ content # <<>> /\ NoPatternMatches /\ ret = None /\ log = "debug"

(***************************************************************************)
(* Properties of two calls of detect, checked under SpecTwice              *)
(***************************************************************************)

\* Two values detect returned are equal in every field but the time of
\* extraction in raw_data.
EqualButTime(a, b) ==
  \/ a = None /\ b = None
  \/ /\ a # None /\ b # None
     /\ [a.info EXCEPT !.raw_data.extracted_at = 0] = [b.info EXCEPT !.raw_data.extracted_at = 0]

Listed == vpc \in {"listed", "relisted"}

\* The identifiers of the {identifier} placeholders that occur in a
\* template: the brace-free names that stand between an opening and a
\* closing brace.
PlaceholderNames(t) ==
  {SubSeq(t, i + 1, j - 1) : i \in {i \in 1..Len(t) : t[i] = "{"},
                             j \in {j \in 1..Len(t) : t[j] = "}"}}
    \cap {n \in Seq(VariableChars \ {"{", "}"}) : n # <<>>}

Elements(list) == {list[i] : i \in 1..Len(list)}
NoDuplicates(list) == \A i, j \in 1..Len(list) : list[i] = list[j] => i = j

\* C13: detect_variables returns the distinct identifiers of all
\* {identifier} placeholders of the template: no duplicates, every
\* placeholder name other than the reserved active_agent_prompt, never
\* active_agent_prompt, and nothing for an empty template.
C13_DistinctIdentifiers ==
  Listed =>
    /\ NoDuplicates(unique_list)
    /\ Elements(unique_list) = PlaceholderNames(template) \ {active_agent_prompt}
    /\ template = <<>> => unique_list = <<>>

\* The names the scan finds in the template are identifiers.
OnlyIdentifiers == \A i \in 1..Len(FindAll(template)) : ~HasBrace(FindAll(template)[i])

\* C14: the order of the variables detect_variables returns is stable: two
\* calls on the same template, in the same run or in different runs, return
\* the identifiers in the same order.
C14_SameOrder == (vpc = "relisted" /\ OnlyIdentifiers) => unique_list = last_list

(***************************************************************************)
(* Properties of determine_type, checked under SpecType                    *)
(***************************************************************************)

\* The lower-cased name holds a phone word, or a time word.
HasPhoneWord(name) ==
  \E w \in {<<"phone">>, <<"number">>, <<"tel">>, <<"mobile">>, <<"cell">>} :
     Contains(LowerText(name), w)
HasTimeWord(name) ==
  \E w \in {<<"time">>, <<"date">>, <<"time", "stamp">>, <<"when">>, <<"date", "time">>} :
     Contains(LowerText(name), w)

\* C15: determine_type classifies a name as phone if its lower-cased form
\* holds a phone word, as time if it is 'now' or holds a time word, and as
\* text otherwise; a name with both a phone word and a time word is phone.
C15_Classified ==
  vpc = "typed" =>
    var_type = (IF HasPhoneWord(var_name) THEN "phone"
                ELSE IF LowerText(var_name) = <<"now">> \/ HasTimeWord(var_name) THEN "time"
                ELSE "text")

\* determine_type has classified a name that holds a phone word and a time
\* word.
C15_PhoneAndTime ==
  vpc = "typed" /\ HasPhoneWord(var_name) /\ HasTimeWord(var_name) /\ var_type = "phone"

(***************************************************************************)
(* Properties of validate_phone_number, checked under SpecPhone            *)
(***************************************************************************)

\* What is left of a value without its whitespace, hyphens, parentheses
\* and plus signs.
RECURSIVE Remainder(_)
Remainder(t) ==
  IF t = <<>> THEN <<>>
  ELSE IF Head(t) \in {" ", "\n", "-", "(", ")", "+"} THEN Remainder(Tail(t))
  ELSE <<Head(t)>> \o Remainder(Tail(t))
OnlyDigits(t) == \A i \in 1..Len(t) : t[i] \in {"555", "123", "4567", "1234"}

\* C16: validate_phone_number returns true exactly when what is left of the
\* value without whitespace, hyphens, parentheses and plus signs is only
\* digits and at least 10 characters long; '555-123-4567' is valid,
\* '555-1234' is not; it always returns a boolean.
C16_ValidPhone ==
  vpc = "validated" =>
    /\ valid \in BOOLEAN
    /\ valid = (OnlyDigits(Remainder(phone)) /\ CharLen(Remainder(phone)) >= 10)
    /\ phone = <<"555", "-", "123", "-", "4567">> => valid
    /\ phone = <<"555", "-", "1234">> => ~valid

\* validate_phone_number has accepted '(555)1234567'.
C16_Accepted ==
  vpc = "validated" /\ phone = <<"(", "555", ")", "123", "4567">> /\ valid

(***************************************************************************)
(* Properties of the rules, checked under SpecDetect                       *)
(***************************************************************************)

\* The matched text, upper-cased, contains one of the four words.
HasCriticalWord(rule_text) ==
  \E i \in 1..Len(rule_text) : Upper(rule_text[i]) \in {"CRITICAL", "NEVER", "ALWAYS", "MUST"}

\* A rule is made of a matched text of a rule type, with the priority its
\* words give it.
MadeOf(rule, rule_type, rule_text) ==
  /\ rule.rule_type = rule_type
  /\ rule.description = Join(Truncate(rule_text, DescriptionChars))
  /\ rule.priority = (IF HasCriticalWord(rule_text) THEN "critical" ELSE "normal")

\* Every rule is made of one of the matches ms of the rule patterns in a
\* text, stripped.
AllMadeOf(rules, text, ms) ==
  \A i \in 1..Len(rules) :
     \E k \in 1..Len(ms) : MadeOf(rules[i], ms[k][1], Strip(Group0(text, ms[k][2]), WS))

\* The rules of the record detect returned.
ReturnedRules ==
  IF pc = "done" /\ ret # None THEN Elements(ret.info.scheduling_rules) ELSE {}

\* C17: every rule of a returned record is made of a matched text and is
\* critical exactly when that text, upper-cased, contains CRITICAL, NEVER,
\* ALWAYS or MUST; 'NEVER end a call without booking' gives a critical
\* rule, and 'do not service gas lines' alone gives only a normal rule.
C17_PriorityByWord ==
  /\ (pc = "done" /\ ret # None) =>
       AllMadeOf(ret.info.scheduling_rules, content, RuleMatches(content, 1))
  /\ (pc = "done" /\ ret # None /\ Contains(content, Phrases[9])) =>
       \E rule \in ReturnedRules :
          rule.description = Join(Phrases[9]) /\ rule.priority = "critical"
  /\ (pc = "done" /\ content = Phrases[10]) =>
       /\ ret # None
       /\ ReturnedRules # {}
       /\ \A rule \in ReturnedRules : rule.priority = "normal"

\* detect has returned a critical rule whose words are written in lower
\* case, and a normal rule.
C17_BothPriorities ==
  /\ \E rule \in ReturnedRules :
        rule.priority = "critical" /\ Contains(content, <<"always">>)
                                   /\ ~Contains(content, <<"NEVER">>)
  /\ \E rule \in ReturnedRules : rule.priority = "normal"

\* C18: in a returned record no two rules have the same description.
C18_DistinctDescriptions ==
  (pc = "done" /\ ret # None) =>
     \A i, j \in 1..Len(ret.info.scheduling_rules) :
        ret.info.scheduling_rules[i].description = ret.info.scheduling_rules[j].description
          => i = j

(***************************************************************************)
(* Properties of extract_agents, checked under SpecAgents                  *)
(***************************************************************************)

\* The data holds an agents list.
HasAgentsList == data # None /\ "agents" \in DOMAIN data /\ data.agents # None

\* An entry has both a name and a prompt text.
Complete(entry) == {"name", "system_prompt"} \subseteq DOMAIN entry

\* The Agent of a complete entry.
AgentOf(entry) ==
  [name |-> entry.name,
   model_name |-> IF "model_name" \in DOMAIN entry THEN entry.model_name ELSE "Not specified",
   system_prompt |-> entry.system_prompt]

\* The agents of the complete entries, in the order of the list.
CompleteAgents(entries) ==
  [i \in 1..Len(SelectSeq(entries, Complete)) |-> AgentOf(SelectSeq(entries, Complete)[i])]

\* C19: extract_agents returns the agents of the entries with a name and a
\* prompt text, in the order of the list, skips the other entries, gives
\* 'Not specified' for an absent model, and returns an empty list for empty
\* data and data without an agents key.
C19_AgentsOfCompleteEntries ==
  agents # None =>
    /\ (data = None \/ "agents" \notin DOMAIN data) => agents = Returned(<<>>)
    /\ HasAgentsList => agents = Returned(CompleteAgents(data.agents.info))

(***************************************************************************)
(* Properties of the fee list, checked under SpecDetect                    *)
(***************************************************************************)

\* The category of a returned fee, numbered in the order the detector
\* visits the categories.
Category(fee) ==
  CASE fee.service_type \in StandardTypes -> 1
    [] fee.service_type = "Emergency Call" -> 2
    [] fee.service_type = "Estimate Visit" -> 3
    [] fee.service_type = "Members" -> 4
    [] fee.service_type = "Multiple Issues" -> 5

\* The first of the standard matches ms of a text with the amount.
FirstWith(text, ms, amount) ==
  CHOOSE k \in 1..Len(ms) :
    /\ "$" \o GroupStr(text, ms[k], 1) = amount
    /\ \A h \in 1..(k - 1) : "$" \o GroupStr(text, ms[h], 1) # amount

\* The fees are in insertion order and no two have the same category and
\* amount; ms are the standard matches of the text in the order of the
\* loops.
KeyedInOrder(fees, text, ms) ==
  \A i, j \in 1..Len(fees) :
     i < j =>
       /\ Category(fees[i]) <= Category(fees[j])
       /\ Category(fees[i]) = Category(fees[j]) =>
            /\ Category(fees[i]) = 1
            /\ fees[i].amount # fees[j].amount
            /\ FirstWith(text, ms, fees[i].amount) < FirstWith(text, ms, fees[j].amount)

\* C20: in every record detect returns, dispatch_fees is in insertion order
\* (standard fees by first match, then emergency, estimate, member and
\* multiple issues), no two fees have the same category and amount, and each
\* category but the standard one gives at most one fee.
C20_FeesKeyedInOrder ==
  (pc = "done" /\ ret # None) =>
     KeyedInOrder(ret.info.dispatch_fees, content, StandardMatches(content, 1))

\* A record with a standard fee and, after it, an emergency fee of the same
\* amount.
C20_SameAmountTwoCategories ==
  /\ pc = "done" /\ ret # None
  /\ \E i, j \in 1..Len(ret.info.dispatch_fees) :
        /\ i < j
        /\ Category(ret.info.dispatch_fees[i]) = 1
        /\ Category(ret.info.dispatch_fees[j]) = 2
        /\ ret.info.dispatch_fees[i].amount = ret.info.dispatch_fees[j].amount
(***************************************************************************)
(* Properties of the hours, checked under SpecHours                        *)
(***************************************************************************)

\* The value of an hour of the 12-hour clock on the 24-hour clock.
Hour24(h, m) ==
  IF m = "PM" /\ IntOf(h) # 12 THEN IntOf(h) + 12
  ELSE IF m = "AM" /\ IntOf(h) = 12 THEN 0
       ELSE IntOf(h)

\* The slots reported for a range are those of its values on the 24-hour
\* clock.
SlotsOf(scheduling, start, end) ==
  /\ scheduling.morning_slots # "" <=> start < 12
  /\ scheduling.afternoon_slots # "" <=> end > 12

\* C21: for every range of hours, from 1 to 12 with AM or PM each,
\* morning_slots is reported exactly when the start, on the 24-hour clock,
\* is below 12, and afternoon_slots exactly when the end is above 12.
C21_SlotsByNoon ==
  pc = "scheduled" =>
    \A minutes \in BOOLEAN, h1 \in ClockHours, m1 \in Meridiems, h2 \in ClockHours,
       m2 \in Meridiems :
       content = HourRange(minutes, h1, m1, h2, m2)
         => SlotsOf(info.scheduling, Hour24(h1, m1), Hour24(h2, m2))

(***************************************************************************)
(* Properties of the service type of a fee, checked under SpecFees         *)
(***************************************************************************)

\* Where the fee of the text starts, and the lexemes it takes.
FeeStart == CHOOSE i \in 1..Len(content) : content[i] = "$"
FeeEnd == FeeStart + Len(Phrases[1]) - 1

\* The text holds the word, in any case, with all its characters at most
\* 100 characters before the start of the fee or after its end.
Near(word) ==
  \E j \in 1..Len(content) :
     /\ Lower(content[j]) = word
     /\ j < FeeStart => CharLen(SubSeq(content, j, FeeStart - 1)) <= 100
     /\ j > FeeEnd => CharLen(SubSeq(content, FeeEnd + 1, j)) <= 100

\* C22: the service type of a standard fee is 'Service Call (Repairs)' if
\* 'repair' occurs within 100 characters before the match or after it,
\* otherwise 'Service Call (Cleaning/Maintenance)' if 'cleaning' or
\* 'maintenance' does, otherwise 'Standard Service Call'; words further
\* away do not count.
C22_TypeFromWindow ==
  pc = "fees found" =>
    /\ Len(info.dispatch_fees) = 1
    /\ info.dispatch_fees[1].amount = "$89"
    /\ info.dispatch_fees[1].service_type =
         (IF Near("repair") THEN "Service Call (Repairs)"
          ELSE IF Near("cleaning") \/ Near("maintenance")
               THEN "Service Call (Cleaning/Maintenance)"
               ELSE "Standard Service Call")

\* A fee with 'repair' starting 101 characters before it and 'cleaning'
\* right after it has the type of the nearer word.
C22_FarRepairNearCleaning ==
  /\ pc = "fees found"
  /\ content = <<"repair", FarPad>> \o Phrases[1] \o <<"cleaning">>
  /\ info.dispatch_fees[1].service_type = "Service Call (Cleaning/Maintenance)"

(***************************************************************************)
(* C23: first match wins                                                   *)
(***************************************************************************)

\* The indexes of the patterns of a group that match the text, and the
\* match of the lowest of them.
Matching(text, patterns) == {i \in 1..Len(patterns) : Search(text, patterns[i]).ok}
MatchAt(text, patterns, i) == [i |-> i, m |-> Search(text, patterns[i])]
LowestOf(text, patterns, matching) ==
  IF matching = {} THEN [i |-> 0, m |-> NoMatch]
  ELSE MatchAt(text, patterns, CHOOSE i \in matching : \A j \in matching : i <= j)
Lowest(text, patterns) == LowestOf(text, patterns, Matching(text, patterns))

\* The single-valued fields as the lowest-indexed matching patterns give them.
LowestCompany(text) ==
  Greeting(text,
    AssistantName(text,
      CompanyName(text, ExtractedServiceInfo, Lowest(text, COMPANY_PATTERNS.name)),
      Lowest(text, COMPANY_PATTERNS.assistant)),
    Lowest(text, COMPANY_PATTERNS.greeting)).company_info
LowestScheduling(text) ==
  Hours(text, Days(text, ExtractedServiceInfo, Lowest(text, SCHEDULING_PATTERNS.days)),
        Lowest(text, SCHEDULING_PATTERNS.hours)).scheduling
LowestMembership(text) ==
  Warranty(text,
    RepairDiscount(text,
      ProgramName(text, ExtractedServiceInfo, Lowest(text, MEMBERSHIP_PATTERNS.program_name)),
      Lowest(text, MEMBERSHIP_PATTERNS.discount)),
    Lowest(text, MEMBERSHIP_PATTERNS.warranty)).membership
LowestMetrics(text) ==
  ServiceArea(text,
    Notification(text,
      Resolution(text,
        Reviews(text,
          Experience(text, ExtractedServiceInfo, Lowest(text, METRICS_PATTERNS.experience)),
          Lowest(text, METRICS_PATTERNS.reviews)),
        Lowest(text, METRICS_PATTERNS.resolution_rate)),
      Lowest(text, METRICS_PATTERNS.notification)),
    Lowest(text, METRICS_PATTERNS.service_area)).metrics
LowestFees(text) ==
  MultipleFee(text,
    MemberFee(text,
      EstimateFee(text,
        EmergencyFee(text, StandardFees(text, StandardMatches(text, 1), 1, <<>>, {}),
                     Lowest(text, FEE_PATTERNS.emergency)),
        Lowest(text, FEE_PATTERNS.estimate)),
      Lowest(text, FEE_PATTERNS.member)),
    Lowest(text, FEE_PATTERNS.multiple))

SameMembership(membership, lowest) ==
  /\ membership.program_name = lowest.program_name
  /\ membership.repair_discount = lowest.repair_discount
  /\ membership.warranty = lowest.warranty

\* C23: when the eight detectors have run, every single-valued field holds
\* the value derived from the lowest-indexed pattern of its group that
\* matches the text: the company name, assistant name and greeting, the
\* operating days and hours, the program name, discount and warranty, the
\* experience, reviews, resolution rate, notification window and service
\* area, and the emergency, estimate, member and multiple-issues fees.
C23_FirstMatchWins ==
  pc = "finish" =>
    /\ info.company_info = LowestCompany(content)
    /\ info.scheduling = LowestScheduling(content)
    /\ SameMembership(info.membership, LowestMembership(content))
    /\ info.metrics = LowestMetrics(content)
    /\ info.dispatch_fees = LowestFees(content)

\* Two review patterns match, the second on "150" earlier in the text, and
\* the stored count is the one of pattern 1.
C23_TwoReviewPatterns ==
  /\ pc = "finish"
  /\ Matching(content, METRICS_PATTERNS.reviews) = {1, 2}
  /\ GroupStr(content, Search(content, METRICS_PATTERNS.reviews[2]), 1) = "150"
  /\ info.metrics.customer_reviews = "89+ reviews"

(***************************************************************************)
(* C24: the group detectors in any order                                   *)
(***************************************************************************)

\* C24: whatever the order in which the eight group detectors of one detect
\* call run, the aggregate they leave is the one the sequential order of
\* detect leaves, and the call returns a value the sequential call returns.
C24_AnyOrder ==
  /\ pc = "finish" => info = RunFrom(content, ExtractedServiceInfo, "company").info
  /\ pc = "done" => ret \in Returns(content, Times)

\* The rules detector has run before the company detector, on a text that
\* has a rule and a company name.
C24_RulesBeforeCompany ==
  /\ pc = "call"
  /\ "rules" \notin pending /\ "company" \in pending
  /\ info.scheduling_rules # <<>>
  /\ _detect_company_info(content, info).company_info.company_name # ""

(***************************************************************************)
(* Further properties of the session, checked under Spec                   *)
(***************************************************************************)

\* _process_yaml reaches its last statement on the input the session holds.
Succeeds(ss) ==
  /\ ~Blank(ss.yaml_input)
  /\ ~parse(ss.yaml_input).raises
  /\ ~extract_agents(parse(ss.yaml_input).data).raised

\* C25: every successful Process Configuration leaves as stored variables
\* the variables of the global template of the configuration just processed,
\* each once, and none when that configuration has no global template.
C25_VariablesOfProcessed ==
  [][(ProcessConfiguration /\ Succeeds(session_state)) =>
       /\ Elements(session_state'.variables) = VariablesIn(session_state.yaml_input)
       /\ NoDuplicates(session_state'.variables)]_vars

\* What the session stores of a configuration.
Stored(ss) ==
  <<ss.data, ss.agents, ss.global_template, ss.variables, ss.service_info, ss.yaml_processed>>

\* The prompts shown were all generated from the agents and the global
\* template the session stores: each is the stored template filled with the
\* system_prompt of the agent it is shown for.
ShownAreCurrent(ss) ==
  \A i \in 1..Len(Shown(ss)) :
     \E vv \in ValidValues(ss) :
        Shown(ss)[i].prompt =
          inject_variables(OrEmpty(ss.global_template), vv, Shown(ss)[i].agent.system_prompt)

\* C26: a Process Configuration step taken when every prompt shown is
\* generated from the stored agents and template leaves only such prompts
\* shown: no prompt generated from the configuration stored before is
\* displayed for an agent of the new one.
C26_NoStalePrompts ==
  [][(ProcessConfiguration /\ ShownAreCurrent(session_state))
       => ShownAreCurrent(session_state')]_vars

\* C27: a Process Configuration that fails, on blank input, on a YAML error
\* or on an exception of extract_agents, leaves data, agents, global
\* template, variables, service info and yaml_processed as they were.
C27_FailureLeavesStored ==
  [][(ProcessConfiguration /\ ~Succeeds(session_state))
       => Stored(session_state') = Stored(session_state)]_vars

(***************************************************************************)
(* C28: the agent prompt in the output of inject_variables                 *)
(***************************************************************************)

\* The template with every {active_agent_prompt} replaced by the agent
\* prompt as it is, the variables injected only in the text between the
\* occurrences; piece is the text read since the last occurrence.
RECURSIVE Verbatim(_, _, _, _)
Verbatim(str, mapping, prompt, piece) ==
  IF Len(str) < Len(Placeholder(active_agent_prompt))
  THEN InjectFrom(piece \o str, mapping, 1)
  ELSE IF SubSeq(str, 1, Len(Placeholder(active_agent_prompt))) = Placeholder(active_agent_prompt)
       THEN InjectFrom(piece, mapping, 1) \o prompt
            \o Verbatim(SubSeq(str, Len(Placeholder(active_agent_prompt)) + 1, Len(str)),
                        mapping, prompt, <<>>)
       ELSE Verbatim(Tail(str), mapping, prompt, Append(piece, Head(str)))

\* C28: inject_variables puts the agent prompt in the output verbatim: every
\* {active_agent_prompt} of the template is replaced by exactly the agent's
\* prompt text, and a placeholder inside that text is not replaced by the
\* value of a user variable.
C28_AgentPromptVerbatim ==
  vpc = "injected" => result = Verbatim(template, variables, agent_prompt, <<>>)

(***************************************************************************)
(* C29, C30: the flags of the session, and Clear All                       *)
(***************************************************************************)

AllDefault(ss) ==
  /\ DOMAIN ss = {"yaml_processed", "data", "agents", "global_template", "variables",
                  "yaml_input", "prompts_generated", "service_info", "generated_prompts",
                  "variable_values"}
  /\ ~ss.yaml_processed /\ ~ss.prompts_generated
  /\ ss.agents = <<>> /\ ss.variables = <<>>
  /\ ss.generated_prompts = <<>> /\ ss.variable_values = <<>>
  /\ ss.data = None /\ ss.global_template = None /\ ss.service_info = None
  /\ ss.yaml_input.text = <<>>

\* C30: from every state of the session Clear All leaves every key at its
\* initial default: the two flags false, agents, variables, generated
\* prompts and variable values empty, data, global template and service
\* info absent, and the YAML input empty.
C30_ClearAllResets == [][ClearAll => AllDefault(session_state')]_vars

\* Clear All has been handled, and every key of the session holds its
\* default.
C30_Cleared == clicked = "Clear All" /\ AllDefault(session_state)

====
